---- MODULE Spec2Model ----
(***************************************************************************)
(* Discord Mini App Framework: the token-exchange server                   *)
(* (packages/server/src/app.ts) and the embedded client                    *)
(* (packages/client/src/main.ts) as one state machine.                     *)
(*                                                                         *)
(* JSON values are opaque strings; a JSON object (a request or response    *)
(* body) is a set of <<field, value>> pairs.  A handler runs without       *)
(* interruption from one `await` to the next, so every action is one such  *)
(* synchronous run.                                                        *)
(***************************************************************************)
EXTENDS Integers, Sequences, FiniteSets, TLC

(* ---------------------------------------------------------------------- *)
(* Bounds                                                                  *)
(* ---------------------------------------------------------------------- *)

\* number of HTTP requests sent to the server by callers other than the client
MaxReq == 1

\* number of calls of getVoiceChannelInfo() and getGuildInfo() made besides
\* those of start-up, by clicks on the buttons and by modules that import the
\* functions
MaxCalls == 1

\* number of free trailing digits of the user and guild ids the URL builders
\* are applied to
IdTailLen == 2

(* ---------------------------------------------------------------------- *)
(* Values                                                                  *)
(* ---------------------------------------------------------------------- *)

NULL == "null"
UNDEF == "undefined"

\* JavaScript truthiness of a string-or-absent value
Truthy(v) == v # UNDEF /\ v # NULL /\ v # ""

\* the confidential value of CLIENT_SECRET and the public VITE_CLIENT_ID
SecretValue == "s3cr3t"
ClientIdValue == "app_1"

\* authorization codes issued by the provider
Codes == {"code_a"}

\* access tokens issued by the provider
Tokens == {"tok_1", "tok_2"}

\* non-success statuses the provider answers with
ErrStatuses == {400, 401, 500}

\* the other fields of the provider's token response (TokenResponse)
OtherTokenFields ==
    { <<"token_type", "Bearer">>, <<"expires_in", "604800">>,
      <<"refresh_token", "refresh_1">>, <<"scope", "identify guilds">> }

\* message of the body parser's exception on malformed JSON
ParseErrMessage == "Unexpected token in JSON"

\* the client's request uses slot 0, other callers use slots 1..MaxReq
ReqIds == 0 .. MaxReq
ExtIds == 1 .. MaxReq

\* the requests other callers send: every route, the token route with each
\* kind of code, an unregistered path, and a body that is not valid JSON
ExtRequests ==
    { [method |-> "POST", path |-> "/api/token", json |-> TRUE, code |-> c] :
          c \in {UNDEF, ""} \cup Codes }
    \cup { [method |-> "POST", path |-> "/api/token", json |-> FALSE, code |-> UNDEF] }
    \cup { [method |-> m, path |-> p, json |-> TRUE, code |-> UNDEF] :
          m \in {"GET"}, p \in {"/api/health", "/api/config", "/api/token", "/other"} }
    \cup { [method |-> "POST", path |-> "/other", json |-> TRUE, code |-> UNDEF] }

\* decimal digits and their values
Digits == {"0", "1", "2", "3", "4", "5", "6", "7", "8", "9"}

DigitVal(c) ==
    CASE c = "0" -> 0 [] c = "1" -> 1 [] c = "2" -> 2 [] c = "3" -> 3
      [] c = "4" -> 4 [] c = "5" -> 5 [] c = "6" -> 6 [] c = "7" -> 7
      [] c = "8" -> 8 [] c = "9" -> 9

\* a port is written in the environment as a sequence of characters; the
\* empty sequence is an unset or empty variable
NoPort == <<>>
\* Number.NaN
NaN == -1

\* the longest prefix of decimal digits
RECURSIVE DigitPrefix(_)
DigitPrefix(cs) ==
    IF cs = <<>> \/ cs[1] \notin Digits THEN <<>>
    ELSE <<cs[1]>> \o DigitPrefix(Tail(cs))

RECURSIVE DigitsValue(_, _)
DigitsValue(ds, acc) ==
    IF ds = <<>> THEN acc ELSE DigitsValue(Tail(ds), acc * 10 + DigitVal(ds[1]))

\* parseInt(s, 10): the value of the leading digits, NaN when there are none
ParseInt(cs) ==
    IF DigitPrefix(cs) = <<>> THEN NaN ELSE DigitsValue(DigitPrefix(cs), 0)

\* `${n}`
NumString(n) == IF n = NaN THEN "NaN" ELSE ToString(n)

\* the requests of the server on its own: every method on every path, with
\* the bodies of ExtRequests
SrvRequests ==
    ExtRequests
    \cup { [method |-> m, path |-> p, json |-> TRUE, code |-> UNDEF] :
             m \in {"GET", "HEAD", "POST", "PUT", "OPTIONS"},
             p \in {"/api/health", "/api/config", "/api/token", "/other",
                    "/api/other"} }
    \cup { [method |-> "PUT", path |-> "/other", json |-> FALSE, code |-> UNDEF] }

\* fields of a JSON object, and the value of one field
Fields(body) == { p[1] : p \in body }
Get(body, f) == IF f \in Fields(body)
                  THEN (CHOOSE p \in body : p[1] = f)[2]
                  ELSE UNDEF

\* res.json(obj): JSON.stringify drops the fields whose value is undefined
Json(body) == { p \in body : p[2] # UNDEF }

(* ---------------------------------------------------------------------- *)
(* State                                                                   *)
(* ---------------------------------------------------------------------- *)

VARIABLES
    env,        \* the root .env file / process environment
    srv,        \* the server process: "boot", "exited" or "listening"
    exitCode,   \* exit status of the server process (-1 while it runs)
    config,     \* the server's configuration object
    corsOptions, \* the options the cors middleware was created with
    reqs,       \* the HTTP requests, by slot
    outbound,   \* the calls made to the provider's token endpoint
    frameId,    \* the frame_id parameter of the page URL
    sdk,        \* the DiscordSDK instance: constructed, channelId, guildId
    cpc,        \* where the client's start-up is suspended
    page,       \* "app", or the message that replaced document.body
    accessToken,
    currentUser,
    loading,    \* the loading indicator is visible
    content,    \* the content panel is visible
    error,      \* the error panel is visible
    errorMessage,
    steps,      \* the suspending operations the client invoked, in order
    pending,    \* the operations invoked and not settled
    completed,  \* the operations that resolved
    failedStep, \* the operation whose failure main() caught
    authenticateArg, \* the access_token authenticate was called with
    authResult, \* what authenticate settled with
    avatarSrc,  \* #user-avatar src
    userName,   \* #user-name textContent
    channelResult, \* what getVoiceChannelInfo() returned
    channelName, \* #channel-name textContent
    guildResult, \* what getGuildInfo() returned
    guildFetch, \* how the guild list request of getGuildInfo() ended
    appTitle,   \* #app-title textContent
    guildImage, \* #guild-avatar style.backgroundImage
    fnArgs,     \* arguments of a call of a URL builder
    fnResult,   \* the URL it returned
    channelCalls, \* the calls of getVoiceChannelInfo() made after start-up
    guildCalls, \* the calls of getGuildInfo() made by importing modules
    output,     \* the output panel: shown or hidden, and its content
    tpc,        \* where the command-line tool is: "idle", a prompt, "done", "exited"
    tin,        \* what the tool finds: its arguments, the commands and files present
    tans,       \* the answers the wizard collected
    dotenv,     \* the .env file the wizard wrote
    written,    \* the files and directories the tool created, in order
    toolExit,   \* exit status of the tool (-1 while it runs)
    toolLog,    \* the stages the tool went through, in order
    tres        \* what validateEnv returned, or what check-env recorded

srvVars == <<env, srv, exitCode, config, corsOptions, reqs, outbound>>
uiVars == <<page, loading, content, error, errorMessage>>
histVars == <<steps, pending, completed, failedStep>>
authVars == <<authenticateArg, authResult>>
userDom == <<avatarSrc, userName>>
chanVars == <<channelResult, channelName>>
guildVars == <<guildResult, guildFetch, appTitle, guildImage>>
fnVars == <<fnArgs, fnResult>>
clickVars == <<channelCalls, guildCalls, output>>
moreVars == <<authVars, userDom, chanVars, guildVars, fnVars, clickVars>>
cliVars == <<frameId, sdk, cpc, accessToken, currentUser, uiVars, histVars, moreVars>>
toolVars == <<tpc, tin, tans, dotenv, written, toolExit, toolLog, tres>>
vars == <<srvVars, cliVars, toolVars>>

NoResp == [status |-> 0, body |-> {}]
NoAnswer == [kind |-> "none", status |-> 0, parseable |-> TRUE, body |-> {},
             msg |-> ""]

\* a slot no request uses yet
\* (disk: what the file lookups made for the request found, in order)
FreeReq == [st |-> "free", method |-> "", path |-> "", json |-> TRUE,
            code |-> UNDEF, calls |-> 0, answer |-> NoAnswer, disk |-> <<>>,
            resp |-> NoResp]

\* const config = {...}
LoadConfig(e) ==
    [clientPort |-> ParseInt(IF e.CLIENT_PORT = NoPort THEN <<"3", "0", "0", "0">>
                                                       ELSE e.CLIENT_PORT),
     clientId |-> e.VITE_CLIENT_ID,
     clientSecret |-> e.CLIENT_SECRET,
     isProduction |-> (e.NODE_ENV = "production"),
     appName |-> "Discord Mini App"]

Envs == [VITE_CLIENT_ID : {UNDEF, ClientIdValue},
         CLIENT_SECRET : {UNDEF, SecretValue},
         NODE_ENV : {"development", "production"},
         CLIENT_PORT : {NoPort}]

\* the environments of the server on its own: variables unset, empty or set
ServerEnvs == [VITE_CLIENT_ID : {UNDEF, "", ClientIdValue},
               CLIENT_SECRET : {UNDEF, "", SecretValue},
               NODE_ENV : {UNDEF, "development", "production", "test"},
               CLIENT_PORT : { NoPort, <<"5", "1", "7", "3">>, <<"8", "0", "a">>,
                               <<"x">> }]

\* an origin that ignores the configured client port
CorsOptionsFixedPort(cfg) ==
    [origin |-> IF cfg.isProduction THEN <<>>
                ELSE <<"http://localhost:", "3000">>,
     credentials |-> TRUE]

\* cors({ origin: ..., credentials: true }); an undefined origin is <<>>
CorsOptions(cfg) ==
    [origin |-> IF cfg.isProduction THEN <<>>
                ELSE <<"http://localhost:", NumString(cfg.clientPort)>>,
     credentials |-> TRUE]

\* the provider's possible answers to one outbound call: a success status
\* with a token response, with a body that lacks the token or cannot be
\* parsed; a non-success status with or without a parseable payload; or the
\* call throws

ProviderAnswers ==
    { [kind |-> "ok", status |-> 200, parseable |-> TRUE, body |-> b, msg |-> ""] :
          b \in { {<<"access_token", t>>} \cup x :
                     t \in Tokens, x \in {{}, OtherTokenFields} }
                 \cup { {<<"scope", "identify guilds">>} } }
    \cup { [kind |-> "ok", status |-> 201, parseable |-> TRUE,
            body |-> {<<"access_token", "tok_1">>} \cup OtherTokenFields, msg |-> ""] }
    \cup { [kind |-> "ok", status |-> 200, parseable |-> FALSE, body |-> {}, msg |-> ""] }
    \cup { [kind |-> "err", status |-> s, parseable |-> TRUE,
            body |-> {<<"payload", p>>}, msg |-> ""] :
          s \in ErrStatuses, p \in {"{error:invalid_grant}"} }
    \cup { [kind |-> "err", status |-> s, parseable |-> FALSE, body |-> {}, msg |-> ""] :
          s \in ErrStatuses }
    \cup { [kind |-> "throw", status |-> 0, parseable |-> FALSE, body |-> {}, msg |-> m] :
          m \in {"fetch failed"} }

(* ---------------------------------------------------------------------- *)
(* Server: responses                                                       *)
(* ---------------------------------------------------------------------- *)

\* res.status(s).json(obj)
Resp(s, obj) == [status |-> s, body |-> Json(obj)]

\* app.get('/api/health')
HealthResponse ==
    Resp(200, { <<"status", "ok">>, <<"app", config.appName>>,
                <<"timestamp", "iso8601">> })

\* a config endpoint that serialises the whole configuration object
ConfigResponseWholeConfig ==
    Resp(200, { <<"appName", config.appName>>, <<"clientId", config.clientId>>,
                <<"clientSecret", config.clientSecret>> })

\* app.get('/api/config')
ConfigResponse ==
    Resp(200, { <<"appName", config.appName>>, <<"clientId", config.clientId>> })

\* app.get('*'): res.sendFile(index.html), when the file is there
SpaFallbackResponse == Resp(200, { <<"file", "index.html">> })

\* express.static(clientDist) is about to look the path up on the disk
StaticLookup == [status |-> 0, body |-> { <<"lookup", "clientDist">> }]

\* 404 handler
NotFoundResponse == Resp(404, { <<"error", "Not found">> })

\* the cors middleware ends an OPTIONS request itself when an origin is
\* configured; with origin undefined it passes every request on
PreflightResponse == [status |-> 204, body |-> {}]

\* app.get(...) also answers HEAD, and a response to HEAD has no body
IsGet(method) == method \in {"GET", "HEAD"}
Sent(method, resp) == IF method = "HEAD" THEN [resp EXCEPT !.body = {}] ELSE resp

\* a global error handler that returns the raw message in every mode
GlobalErrorResponseAlwaysRaw(msg) == Resp(500, { <<"error", msg>> })

\* global error handler
GlobalErrorResponse(msg) ==
    Resp(500, { <<"error", IF config.isProduction THEN "Internal server error"
                                                  ELSE msg>> })

\* POST /api/token: if (!code)
TokenValidationResponse == Resp(400, { <<"error", "Authorization code is required">> })

\* an upstream-error response that answers with a fixed status
TokenUpstreamErrorFixedStatus(status, errorData) ==
    Resp(500, { <<"error", "Failed to exchange token with Discord">>,
                <<"details", errorData>> })

\* POST /api/token: if (!response.ok)
TokenUpstreamErrorResponse(status, errorData) ==
    Resp(status, { <<"error", "Failed to exchange token with Discord">>,
                   <<"details", errorData>> })

\* a success response that forwards the provider's whole token response
TokenSuccessForwardAll(tokenData) == Resp(200, tokenData)

\* POST /api/token: res.json({ access_token: tokenData.access_token })
TokenSuccessResponse(tokenData) ==
    Resp(200, { <<"access_token", Get(tokenData, "access_token")>> })

\* a catch block that answers like the global error handler
TokenCatchLikeGlobalHandler(msg) ==
    Resp(500, { <<"error", IF config.isProduction
                             THEN "Internal server error during token exchange"
                             ELSE msg>> })

\* POST /api/token: catch (error)
TokenCatchResponse(msg) ==
    Resp(500, { <<"error", "Internal server error during token exchange">> })

\* response.json().catch(() => ({}))
ErrorData(answer) == IF answer.parseable THEN Get(answer.body, "payload") ELSE "{}"

\* an error branch whose response.json() has no .catch: the rejection reaches
\* the catch block
TokenErrorBranchNoCatch(a) ==
    IF a.parseable
      THEN TokenUpstreamErrorResponse(a.status, Get(a.body, "payload"))
      ELSE TokenCatchResponse(ParseErrMessage)

\* POST /api/token: the whole if (!response.ok) branch
TokenErrorBranch(a) == TokenUpstreamErrorResponse(a.status, ErrorData(a))

\* body of the outbound call: new URLSearchParams({...})
TokenRequestBody(code) ==
    { <<"client_id", config.clientId>>, <<"client_secret", config.clientSecret>>,
      <<"grant_type", "authorization_code">>, <<"code", code>> }

(* ---------------------------------------------------------------------- *)
(* Server: operations                                                      *)
(* ---------------------------------------------------------------------- *)

\* a start-up that validates the client id only
ServerStartIdOnly ==
    /\ srv = "boot"
    /\ config' = LoadConfig(env)
    /\ IF ~Truthy(config'.clientId)
         THEN srv' = "exited" /\ exitCode' = 1 /\ corsOptions' = corsOptions
         ELSE /\ srv' = "listening" /\ exitCode' = exitCode
              /\ corsOptions' = CorsOptions(config')
    /\ UNCHANGED <<env, reqs, outbound>>

\* module initialisation: load the configuration, validate it
\* (process.exit(1)), create the middleware and the routes, listen
ServerStart ==
    /\ srv = "boot"
    /\ config' = LoadConfig(env)
    /\ IF ~Truthy(config'.clientId) \/ ~Truthy(config'.clientSecret)
         THEN srv' = "exited" /\ exitCode' = 1 /\ corsOptions' = corsOptions
         ELSE /\ srv' = "listening" /\ exitCode' = exitCode
              /\ corsOptions' = CorsOptions(config')
    /\ UNCHANGED <<env, reqs, outbound>>

\* a request no API route matched: in production express.static looks a GET
\* or HEAD up in the client's build and passes every other method on;
\* app.get('*') is for GET and HEAD too, so the other methods, and every
\* method outside production, reach the 404 handler
Fallthrough(method) ==
    IF config.isProduction /\ IsGet(method) THEN StaticLookup
    ELSE Sent(method, NotFoundResponse)

\* routes whose token handler only rejects a missing code (code === undefined)
RouteMissingOnly(method, path, json, code) ==
    IF ~json THEN GlobalErrorResponse(ParseErrMessage)
    ELSE IF method = "OPTIONS" /\ corsOptions.origin # <<>> THEN PreflightResponse
    ELSE IF IsGet(method) /\ path = "/api/health" THEN Sent(method, HealthResponse)
    ELSE IF method = "POST" /\ path = "/api/token"
      THEN (IF code = UNDEF THEN TokenValidationResponse ELSE NoResp)
    ELSE IF IsGet(method) /\ path = "/api/config" THEN Sent(method, ConfigResponse)
    ELSE Fallthrough(method)

\* the middleware chain and the routes, up to the response or the first await:
\* the response a request gets at once, NoResp when the token handler
\* starts the outbound call, StaticLookup when express.static starts its
\* lookup
Route(method, path, json, code) ==
    IF ~json THEN GlobalErrorResponse(ParseErrMessage)
    ELSE IF method = "OPTIONS" /\ corsOptions.origin # <<>> THEN PreflightResponse
    ELSE IF IsGet(method) /\ path = "/api/health" THEN Sent(method, HealthResponse)
    ELSE IF method = "POST" /\ path = "/api/token"
      THEN (IF ~Truthy(code) THEN TokenValidationResponse ELSE NoResp)
    ELSE IF IsGet(method) /\ path = "/api/config" THEN Sent(method, ConfigResponse)
    ELSE Fallthrough(method)

\* the server takes request r off the network and runs its handler
Handle(r, method, path, json, code) ==
    LET now == Route(method, path, json, code)
        q == [reqs[r] EXCEPT !.method = method, !.path = path, !.json = json,
                             !.code = code]
    IN IF now = NoResp
         THEN /\ reqs' = [reqs EXCEPT ![r] = [q EXCEPT !.st = "fetching",
                                                       !.calls = @ + 1]]
              /\ outbound' = outbound \cup
                    {[req |-> r, url |-> "https://discord.com/api/oauth2/token",
                      body |-> TokenRequestBody(code)]}
         ELSE /\ reqs' = [reqs EXCEPT ![r] =
                           IF now = StaticLookup THEN [q EXCEPT !.st = "static"]
                           ELSE [q EXCEPT !.st = "done", !.resp = now]]
              /\ outbound' = outbound

\* a caller other than the client sends a request and the server handles it
ExtRequest(r) ==
    /\ srv = "listening"
    /\ r \in ExtIds
    /\ reqs[r].st = "free"
    /\ \A k \in ExtIds : k < r => reqs[k].st # "free"
    /\ \E q \in ExtRequests : Handle(r, q.method, q.path, q.json, q.code)
    /\ UNCHANGED <<env, srv, exitCode, config, corsOptions>>

\* any caller sends any request of SrvRequests and the server handles it
SrvRequest(r) ==
    /\ srv = "listening"
    /\ r \in ExtIds
    /\ reqs[r].st = "free"
    /\ \A k \in ExtIds : k < r => reqs[k].st # "free"
    /\ \E q \in SrvRequests : Handle(r, q.method, q.path, q.json, q.code)
    /\ UNCHANGED <<env, srv, exitCode, config, corsOptions>>

\* a handler that repeats the outbound call once when it throws
FetchSettlesRetry(r) ==
    /\ reqs[r].st = "fetching"
    /\ \E a \in ProviderAnswers :
          IF a.kind = "throw"
            THEN IF reqs[r].calls < 2
                   THEN reqs' = [reqs EXCEPT ![r].calls = @ + 1]
                   ELSE reqs' = [reqs EXCEPT ![r].st = "done", ![r].answer = a,
                                             ![r].resp = TokenCatchResponse(a.msg)]
            ELSE reqs' = [reqs EXCEPT ![r].st = "parsing", ![r].answer = a]
    /\ UNCHANGED <<env, srv, exitCode, config, corsOptions, outbound>>

\* await fetch(...) settles: the provider answered, or the call threw
FetchSettles(r) ==
    /\ reqs[r].st = "fetching"
    /\ \E a \in ProviderAnswers :
          IF a.kind = "throw"
            THEN reqs' = [reqs EXCEPT ![r].st = "done", ![r].answer = a,
                                      ![r].resp = TokenCatchResponse(a.msg)]
            ELSE reqs' = [reqs EXCEPT ![r].st = "parsing", ![r].answer = a]
    /\ UNCHANGED <<env, srv, exitCode, config, corsOptions, outbound>>

\* a handler that keeps the provider's answer in a variable of the module,
\* shared by the requests in flight
JsonSettlesShared(r) ==
    /\ reqs[r].st = "parsing"
    /\ LET last == CHOOSE k \in ReqIds :
                      /\ reqs[k].st = "parsing"
                      /\ \A j \in ReqIds : reqs[j].st = "parsing" => j <= k
           a == reqs[last].answer
       IN reqs' = [reqs EXCEPT ![r].st = "done",
                     ![r].resp =
                        IF a.kind = "err" THEN TokenErrorBranch(a)
                          ELSE IF a.parseable THEN TokenSuccessResponse(a.body)
                          ELSE TokenCatchResponse(ParseErrMessage)]
    /\ UNCHANGED <<env, srv, exitCode, config, corsOptions, outbound>>

\* await response.json() settles, on the error branch or on the success branch
JsonSettles(r) ==
    /\ reqs[r].st = "parsing"
    /\ LET a == reqs[r].answer
       IN reqs' = [reqs EXCEPT ![r].st = "done",
                     ![r].resp =
                        IF a.kind = "err" THEN TokenErrorBranch(a)
                          ELSE IF a.parseable THEN TokenSuccessResponse(a.body)
                          ELSE TokenCatchResponse(ParseErrMessage)]
    /\ UNCHANGED <<env, srv, exitCode, config, corsOptions, outbound>>

\* express.static's lookup of the request path in the client's build settles:
\* a file is served, a directory is answered with a redirect to the path
\* with a slash, and a path that is not there goes on to app.get('*'), which
\* calls res.sendFile(index.html)
StaticSettles(r) ==
    /\ reqs[r].st = "static"
    /\ \E found \in {"file", "directory", "missing"} :
          LET q == [reqs[r] EXCEPT !.disk = Append(@, found)]
          IN reqs' = [reqs EXCEPT ![r] =
                CASE found = "file" ->
                       [q EXCEPT !.st = "done",
                                 !.resp = Sent(q.method,
                                               Resp(200, { <<"file", q.path>> }))]
                  [] found = "directory" ->
                       [q EXCEPT !.st = "done",
                                 !.resp = Sent(q.method,
                                               Resp(301, { <<"location",
                                                             q.path \o "/">> }))]
                  [] OTHER -> [q EXCEPT !.st = "sendFile"]]
    /\ UNCHANGED <<env, srv, exitCode, config, corsOptions, outbound>>

\* res.sendFile(index.html) settles: the file is sent; when the client was
\* not built the error goes to next(err) and the global error handler; a
\* directory of that name goes to next() and the 404 handler
SendFileSettles(r) ==
    /\ reqs[r].st = "sendFile"
    /\ \E found \in {"file", "directory", "missing"} :
          reqs' = [reqs EXCEPT ![r].st = "done", ![r].disk = Append(@, found),
                     ![r].resp =
                        Sent(reqs[r].method,
                             CASE found = "file" -> SpaFallbackResponse
                               [] found = "directory" -> NotFoundResponse
                               [] OTHER -> GlobalErrorResponse(
                                              "ENOENT: no such file or directory"))]
    /\ UNCHANGED <<env, srv, exitCode, config, corsOptions, outbound>>

(* ---------------------------------------------------------------------- *)
(* Client: values                                                          *)
(* ---------------------------------------------------------------------- *)

\* an id is the sequence of its digits; the empty sequence is a null id
NoId == <<>>

ChannelIds == {NULL, "chan_1"}
GuildIds == {NoId, <<"4", "1">>}

\* currentUser = null
NoUser == [id |-> NoId, username |-> NULL, avatar |-> NULL, global_name |-> NULL]

\* user profiles authenticate returns
Users == { [id |-> << "8", "0", "3", "5", "1", "1", "1", "0", "2", "2", "4", "6",
                      "7", "8", "9", "1", "2" >>,
            username |-> "nelly", avatar |-> NULL, global_name |-> NULL],
           [id |-> <<"4", "2">>, username |-> "wumpus", avatar |-> "abc123",
            global_name |-> "Wumpus"],
           [id |-> <<"mock_user_id">>, username |-> "mock_user_username",
            avatar |-> NULL, global_name |-> NULL] }

\* the return value of getVoiceChannelInfo(): not called, null, or a channel
NoChannelResult == [ret |-> "none", name |-> ""]
NullChannel == [ret |-> "null", name |-> ""]
ChannelNames == {"General"}

\* the return value of getGuildInfo(): not called, null, or a guild
NoGuild == [id |-> NoId, name |-> "", icon |-> NULL]
NullGuild == [ret |-> "null", guild |-> NoGuild]

\* the guilds of the fetched list: the current guild with and without an
\* icon, and another guild
GuildWithIcon == [id |-> <<"4", "1">>, name |-> "My Server", icon |-> "f00d"]
GuildWithoutIcon == [id |-> <<"4", "1">>, name |-> "My Server", icon |-> NULL]
OtherGuild == [id |-> <<"7">>, name |-> "Other", icon |-> "beef"]

\* how the guild list request of getGuildInfo() ends: the fetch rejects, the
\* status is not a success, the body cannot be parsed, or a list arrives
GuildFetchOutcomes ==
    { [kind |-> k, list |-> <<>>] : k \in {"reject", "notok", "badjson"} }
    \cup { [kind |-> "list", list |-> l] :
             l \in { <<>>, <<OtherGuild>>, <<OtherGuild, GuildWithIcon>>,
                     <<GuildWithoutIcon, OtherGuild>> } }

\* what a suspended operation rejects with: an Error or another value
Rejections == { [isError |-> TRUE, message |-> "Failed to fetch"],
                [isError |-> FALSE, message |-> "{code:4002}"] }

\* how authenticate settles
AuthOutcomes ==
    { [kind |-> "resolve", user |-> u, err |-> [isError |-> FALSE, message |-> ""]] :
          u \in Users }
    \cup { [kind |-> "null", user |-> NoUser, err |-> [isError |-> FALSE, message |-> ""]] }
    \cup { [kind |-> "reject", user |-> NoUser, err |-> e] : e \in Rejections }

FallbackMessage == "Failed to connect to Discord. Please try again."

\* the four steps of the authentication sequence, in order
AuthSteps == <<"ready", "authorize", "token", "authenticate">>

\* response.ok
IsOk(status) == status >= 200 /\ status <= 299

\* new Error(`Failed to exchange code for token: ${response.status}`)
TokenStatusError(status) ==
    [isError |-> TRUE,
     message |-> "Failed to exchange code for token: " \o ToString(status)]

(* ---------------------------------------------------------------------- *)
(* Client: CDN URL builders                                                *)
(* ---------------------------------------------------------------------- *)

\* An id is a decimal string, held as the sequence of its digits.  A URL is
\* the sequence of the chunks and interpolated values of its template
\* literal.

\* the string of an id
RECURSIVE IdString(_)
IdString(ds) == IF ds = <<>> THEN "" ELSE ds[1] \o IdString(Tail(ds))

\* BigInt(userId) % BigInt(m): the remainder of the exact integer, computed
\* digit by digit so that no intermediate value exceeds 10 * m
RECURSIVE BigIntMod(_, _)
BigIntMod(ds, m) ==
    IF ds = <<>> THEN 0
    ELSE (BigIntMod(SubSeq(ds, 1, Len(ds) - 1), m) * 10 + DigitVal(ds[Len(ds)])) % m

\* Number(userId) % 5 for ids of at most 15 digits (exact in a double) and
\* for 17-digit ids in [2^56, 2^57), where a double keeps multiples of 16
\* and rounds to the nearest, ties to the even mantissa
DefaultAvatarIndexFloat(userId) ==
    IF Len(userId) <= 15 THEN BigIntMod(userId, 5)
    ELSE LET r == BigIntMod(userId, 16)
             r32 == BigIntMod(userId, 32)
             up == r > 8 \/ (r = 8 /\ r32 = 24)
             delta == IF up THEN 16 - r ELSE 5 * 16 - r
         IN (BigIntMod(userId, 5) + delta) % 5

\* Number(BigInt(userId) % BigInt(5))
DefaultAvatarIndex(userId) == BigIntMod(userId, 5)

DefaultSize == 128

\* a size argument: given or left out (undefined)
NoSize == [given |-> FALSE, value |-> 0]
SizeArg(n) == [given |-> TRUE, value |-> n]

\* function parameter `size = 128`
SizeOrDefault(size) == IF size.given THEN size.value ELSE DefaultSize

\* an avatar URL builder that always appends the size
getUserAvatarUrlAlwaysSize(userId, avatarHash, size) ==
    IF ~Truthy(avatarHash)
      THEN << "https://cdn.discordapp.com/embed/avatars/",
              ToString(DefaultAvatarIndex(userId)), ".png",
              "?size=", ToString(SizeOrDefault(size)) >>
      ELSE << "https://cdn.discordapp.com/avatars/", IdString(userId), "/",
              avatarHash, ".webp", "?size=", ToString(SizeOrDefault(size)) >>

\* getUserAvatarUrl(userId, avatarHash, size = 128)
getUserAvatarUrl(userId, avatarHash, size) ==
    IF ~Truthy(avatarHash)
      THEN << "https://cdn.discordapp.com/embed/avatars/",
              ToString(DefaultAvatarIndex(userId)), ".png" >>
      ELSE << "https://cdn.discordapp.com/avatars/", IdString(userId), "/",
              avatarHash, ".webp", "?size=", ToString(SizeOrDefault(size)) >>

\* getGuildIconUrl(guildId, iconHash, size = 128)
getGuildIconUrl(guildId, iconHash, size) ==
    << "https://cdn.discordapp.com/icons/", IdString(guildId), "/", iconHash,
       ".webp", "?size=", ToString(SizeOrDefault(size)) >>

\* the ids the builders are applied to: short ids, and 17-digit ids above
\* 2^53 that share the leading digits of 80351110224678912
SampleIds ==
    LET DigitSeqs(n) == [1 .. n -> Digits]
        idPrefix == << "8", "0", "3", "5", "1", "1", "1", "0", "2", "2", "4", "6",
                       "7", "8", "9", "1", "2" >>
    IN UNION { DigitSeqs(n) : n \in 1 .. IdTailLen }
         \cup { SubSeq(idPrefix, 1, 17 - IdTailLen) \o t : t \in DigitSeqs(IdTailLen) }

\* the calls of the URL builders: the avatar hash is null, the empty string
\* or a hash; the size is left out, zero or a number
UrlCalls ==
    LET sizeArgs == {NoSize, SizeArg(0), SizeArg(64)}
    IN [fn : {"getUserAvatarUrl"}, id : SampleIds, hash : {NULL, "", "abc123"},
        size : sizeArgs]
         \cup [fn : {"getGuildIconUrl"}, id : SampleIds, hash : {"abc123"},
               size : sizeArgs]

\* one call of a URL builder
CallUrlBuilder ==
    /\ fnArgs # <<>>
    /\ fnResult = <<>>
    /\ fnResult' = IF fnArgs.fn = "getUserAvatarUrl"
                     THEN getUserAvatarUrl(fnArgs.id, fnArgs.hash, fnArgs.size)
                     ELSE getGuildIconUrl(fnArgs.id, fnArgs.hash, fnArgs.size)
    /\ UNCHANGED <<toolVars, srvVars, frameId, sdk, cpc, accessToken, currentUser, uiVars,
                   histVars, authVars, userDom, chanVars, guildVars, fnArgs, clickVars>>

(* ---------------------------------------------------------------------- *)
(* Client: operations                                                      *)
(* ---------------------------------------------------------------------- *)

\* operation s resolved and the code goes on to invoke operation t
Then(s, t) ==
    /\ steps' = Append(steps, t)
    /\ pending' = (pending \ {s}) \cup {t}
    /\ completed' = completed \cup {s}
    /\ failedStep' = failedStep

\* operation s resolved and nothing is invoked
Finish(s) ==
    /\ steps' = steps
    /\ pending' = pending \ {s}
    /\ completed' = completed \cup {s}
    /\ failedStep' = failedStep

\* a catch block that hides the loading indicator and shows no error panel
CatchNoPanel(s, e) ==
    /\ cpc' = "failed"
    /\ loading' = FALSE
    /\ error' = error
    /\ errorMessage' = IF e.isError THEN e.message ELSE FallbackMessage
    /\ failedStep' = s
    /\ pending' = pending \ {s}
    /\ UNCHANGED <<page, content, steps, completed>>

\* main(): catch (error), reached from the suspended operation s
Catch(s, e) ==
    /\ cpc' = "failed"
    /\ loading' = FALSE
    /\ error' = TRUE
    /\ errorMessage' = IF e.isError THEN e.message ELSE FallbackMessage
    /\ failedStep' = s
    /\ pending' = pending \ {s}
    /\ UNCHANGED <<page, content, steps, completed>>

\* guards that test the frame_id only
LoadGuardFrameOnly(frame, cid) ==
    IF ~Truthy(frame) THEN "notInDiscord" ELSE "app"

\* the module's guards: the message that replaces document.body, or "app"
\* when the module goes on
LoadGuard(frame, cid) ==
    IF ~Truthy(frame) THEN "notInDiscord"
    ELSE IF ~Truthy(cid) THEN "configError"
    ELSE "app"

\* a start-up that does not await discordSdk.ready() before authorize
ClientLoadNoAwait ==
    /\ cpc = "load"
    /\ Truthy(frameId) /\ Truthy(env.VITE_CLIENT_ID)
    /\ \E ch \in ChannelIds, g \in GuildIds :
          sdk' = [constructed |-> TRUE, channelId |-> ch, guildId |-> g]
    /\ cpc' = "awaitAuthorize"
    /\ steps' = steps \o <<"ready", "authorize">>
    /\ pending' = pending \cup {"ready", "authorize"}
    /\ UNCHANGED <<page, completed, failedStep>>
    /\ UNCHANGED <<toolVars, srvVars, frameId, moreVars, accessToken, currentUser, loading, content,
                   error, errorMessage>>

\* module initialisation: the guards, new DiscordSDK, and main() up to
\* await discordSdk.ready()
ClientLoad ==
    /\ cpc = "load"
    /\ IF LoadGuard(frameId, env.VITE_CLIENT_ID) # "app"
         THEN /\ page' = LoadGuard(frameId, env.VITE_CLIENT_ID) /\ cpc' = "halted"
              /\ UNCHANGED <<sdk, histVars>>
         ELSE \/ /\ page' = "sdkInitError" /\ cpc' = "halted"
                 /\ UNCHANGED <<sdk, histVars>>
              \/ /\ \E ch \in ChannelIds, g \in GuildIds :
                       sdk' = [constructed |-> TRUE, channelId |-> ch, guildId |-> g]
                 /\ cpc' = "awaitReady"
                 /\ steps' = Append(steps, "ready")
                 /\ pending' = pending \cup {"ready"}
                 /\ UNCHANGED <<page, completed, failedStep>>
    /\ UNCHANGED <<toolVars, srvVars, frameId, moreVars, accessToken, currentUser, loading, content,
                   error, errorMessage>>

\* await discordSdk.ready() settles
ReadySettles ==
    /\ cpc = "awaitReady"
    /\ \/ /\ cpc' = "awaitAuthorize"
          /\ Then("ready", "authorize")
          /\ UNCHANGED uiVars
       \/ \E e \in Rejections : Catch("ready", e)
    /\ UNCHANGED <<toolVars, srvVars, frameId, moreVars, sdk, accessToken, currentUser>>

\* await discordSdk.commands.authorize() settles; with a code the client
\* sends POST /api/token
AuthorizeSettles ==
    /\ cpc = "awaitAuthorize"
    /\ \/ /\ \E code \in Codes :
                reqs' = [reqs EXCEPT ![0] =
                           [FreeReq EXCEPT !.st = "sent", !.method = "POST",
                                           !.path = "/api/token", !.code = code]]
          /\ cpc' = "awaitToken"
          /\ Then("authorize", "token")
          /\ UNCHANGED uiVars
       \/ /\ \E e \in Rejections : Catch("authorize", e)
          /\ reqs' = reqs
    /\ UNCHANGED <<env, srv, exitCode, config, corsOptions, outbound, toolVars, frameId, moreVars, sdk, accessToken,
                   currentUser>>

\* the server receives the client's request
ClientRequestArrives ==
    /\ srv = "listening"
    /\ reqs[0].st = "sent"
    /\ Handle(0, reqs[0].method, reqs[0].path, reqs[0].json, reqs[0].code)
    /\ UNCHANGED <<env, srv, exitCode, config, corsOptions, cliVars, toolVars>>

\* await fetch('/api/token') rejects: the request never reached the server
TokenFetchRejects ==
    /\ cpc = "awaitToken"
    /\ reqs[0].st = "sent"
    /\ reqs' = [reqs EXCEPT ![0].st = "lost"]
    /\ \E e \in Rejections : Catch("token", e)
    /\ UNCHANGED <<env, srv, exitCode, config, corsOptions, outbound, toolVars, frameId, moreVars, sdk, accessToken,
                   currentUser>>

\* a client that reads the body without looking at response.ok
TokenFetchResolvesNoOkCheck ==
    /\ cpc = "awaitToken"
    /\ reqs[0].st = "done"
    /\ cpc' = "awaitJson"
    /\ UNCHANGED <<toolVars, srvVars, frameId, moreVars, sdk, accessToken, currentUser, uiVars, histVars>>

\* await fetch('/api/token') resolves with the server's response
TokenFetchResolves ==
    /\ cpc = "awaitToken"
    /\ reqs[0].st = "done"
    /\ cpc' = IF IsOk(reqs[0].resp.status) THEN "awaitJson" ELSE "awaitText"
    /\ UNCHANGED <<toolVars, srvVars, frameId, moreVars, sdk, accessToken, currentUser, uiVars, histVars>>

\* await response.text() settles on the !response.ok branch: throw
TokenTextSettles ==
    /\ cpc = "awaitText"
    /\ \E e \in Rejections \cup {TokenStatusError(reqs[0].resp.status)} :
          Catch("token", e)
    /\ UNCHANGED <<toolVars, srvVars, frameId, moreVars, sdk, accessToken, currentUser>>

\* a client that calls authenticate and forgets to keep the token
TokenJsonSettlesNoStore ==
    /\ cpc = "awaitJson"
    /\ \/ /\ accessToken' = accessToken
          /\ authenticateArg' = Get(reqs[0].resp.body, "access_token")
          /\ cpc' = "awaitAuthenticate"
          /\ Then("token", "authenticate")
          /\ UNCHANGED uiVars
       \/ /\ \E e \in Rejections : Catch("token", e)
          /\ UNCHANGED <<accessToken, authenticateArg>>
    /\ UNCHANGED <<toolVars, srvVars, frameId, sdk, currentUser, authResult, userDom, chanVars,
                   guildVars, fnVars, clickVars>>

\* await response.json() settles; the token is stored and authenticate invoked
TokenJsonSettles ==
    /\ cpc = "awaitJson"
    /\ \/ /\ LET access_token == Get(reqs[0].resp.body, "access_token")
             IN /\ accessToken' = access_token
                /\ authenticateArg' = access_token
          /\ cpc' = "awaitAuthenticate"
          /\ Then("token", "authenticate")
          /\ UNCHANGED uiVars
       \/ /\ \E e \in Rejections : Catch("token", e)
          /\ UNCHANGED <<accessToken, authenticateArg>>
    /\ UNCHANGED <<toolVars, srvVars, frameId, sdk, currentUser, authResult, userDom, chanVars,
                   guildVars, fnVars, clickVars>>

BigIntError(ds) ==
    [isError |-> TRUE, message |-> "Cannot convert " \o IdString(ds) \o " to a BigInt"]

\* updateUserInfo() throws: getUserAvatarUrl reaches BigInt(userId) with an
\* id that is not a decimal string (BigInt accepts a string of decimal
\* digits, the empty string included)
UpdateUserInfoThrows(user) ==
    user # NoUser /\ ~Truthy(user.avatar) /\ (\E i \in DOMAIN user.id : user.id[i] \notin Digits)

\* updateUserInfo(): the avatar and the name of the current user
UserDomAfter(user) ==
    IF user = NoUser THEN <<avatarSrc, userName>>
    ELSE << getUserAvatarUrl(user.id, user.avatar, NoSize),
            IF Truthy(user.global_name) THEN user.global_name ELSE user.username >>

\* guilds.find((g) => g.id === discordSdk.guildId) || null
RECURSIVE FindGuild(_, _)
FindGuild(list, guildId) ==
    IF list = <<>> THEN NullGuild
    ELSE IF list[1].id = guildId THEN [ret |-> "guild", guild |-> list[1]]
    ELSE FindGuild(Tail(list), guildId)

\* a getGuildInfo() that returns the first guild of the list
GuildInfoAfterFirst(o) ==
    IF o.kind = "list" /\ o.list # <<>>
      THEN [ret |-> "guild", guild |-> o.list[1]]
      ELSE NullGuild

\* getGuildInfo() once its request ended
GuildInfoAfter(o) ==
    IF o.kind = "list" THEN FindGuild(o.list, sdk.guildId) ELSE NullGuild

\* an updateGuildInfo() that builds the icon URL whether or not the guild has
\* an icon hash
GuildDomAfterNoGuard(res) ==
    IF res.ret # "guild" THEN <<appTitle, guildImage>>
    ELSE << res.guild.name,
            <<"url(">> \o getGuildIconUrl(res.guild.id, res.guild.icon, NoSize)
              \o <<")">> >>

\* updateGuildInfo(): the title and the image, given what getGuildInfo returned
GuildDomAfter(res) ==
    IF res.ret # "guild" THEN <<appTitle, guildImage>>
    ELSE << res.guild.name,
            IF Truthy(res.guild.icon)
              THEN <<"url(">> \o getGuildIconUrl(res.guild.id, res.guild.icon, NoSize)
                     \o <<")">>
              ELSE guildImage >>

\* operation s settled (ok: it resolved) and the code goes on to invoke t
Settled(s, ok, t) ==
    IF ok THEN Then(s, t)
    ELSE /\ steps' = Append(steps, t)
         /\ pending' = (pending \ {s}) \cup {t}
         /\ UNCHANGED <<completed, failedStep>>

\* operation s settled (ok: it resolved) and nothing more is invoked
SettledLast(s, ok) ==
    IF ok THEN Finish(s)
    ELSE /\ pending' = pending \ {s}
         /\ UNCHANGED <<steps, completed, failedStep>>

\* updateGuildInfo() -> getGuildInfo(), entered when operation s settled:
\* without a token or a guild id getGuildInfo returns null at once and
\* main() runs to its end
GuildStep(s, ok) ==
    IF Truthy(accessToken) /\ sdk.guildId # NoId
      THEN /\ cpc' = "awaitGuilds"
           /\ Settled(s, ok, "guilds")
           /\ UNCHANGED guildVars
      ELSE /\ cpc' = "done"
           /\ SettledLast(s, ok)
           /\ guildResult' = NullGuild
           /\ UNCHANGED <<guildFetch, appTitle, guildImage>>

\* a setupDiscordSdk() that swallows a rejection of authenticate, so that
\* main() shows the content
AuthenticateSettlesSwallow ==
    /\ cpc = "awaitAuthenticate"
    /\ \E o \in AuthOutcomes :
          /\ authResult' = o
          /\ IF o.kind = "reject"
               THEN /\ cpc' = "done"
                    /\ loading' = FALSE
                    /\ content' = TRUE
                    /\ pending' = pending \ {"authenticate"}
                    /\ UNCHANGED <<page, error, errorMessage, steps, completed,
                                   failedStep>>
                    /\ UNCHANGED <<currentUser, userDom, chanVars, guildVars>>
               ELSE /\ currentUser' = IF o.kind = "resolve" THEN o.user ELSE currentUser
                    /\ loading' = FALSE
                    /\ content' = TRUE
                    /\ page' = page
                    /\ IF UpdateUserInfoThrows(currentUser')
                         THEN /\ cpc' = "failed"
                              /\ error' = TRUE
                              /\ errorMessage' = BigIntError(currentUser'.id).message
                              /\ failedStep' = "updateUserInfo"
                              /\ pending' = pending \ {"authenticate"}
                              /\ completed' = completed \cup {"authenticate"}
                              /\ UNCHANGED <<steps, userDom, chanVars, guildVars>>
                         ELSE /\ UNCHANGED <<error, errorMessage>>
                              /\ avatarSrc' = UserDomAfter(currentUser')[1]
                              /\ userName' = UserDomAfter(currentUser')[2]
                              /\ IF Truthy(sdk.channelId)
                                   THEN /\ cpc' = "awaitChannel"
                                        /\ Then("authenticate", "getChannel")
                                        /\ UNCHANGED <<chanVars, guildVars>>
                                   ELSE /\ channelResult' = NullChannel
                                        /\ channelName' = channelName
                                        /\ GuildStep("authenticate", TRUE)
    /\ UNCHANGED <<toolVars, srvVars, frameId, sdk, accessToken, authenticateArg, fnVars, clickVars>>

\* await discordSdk.commands.authenticate() settles; on success main() shows
\* the content and starts the UI updates: updateUserInfo(), then
\* updateChannelInfo() -> getVoiceChannelInfo()
AuthenticateSettles ==
    /\ cpc = "awaitAuthenticate"
    /\ \E o \in AuthOutcomes :
          /\ authResult' = o
          /\ IF o.kind = "reject"
               THEN /\ Catch("authenticate", o.err)
                    /\ UNCHANGED <<currentUser, userDom, chanVars, guildVars>>
               ELSE /\ currentUser' = IF o.kind = "resolve" THEN o.user ELSE currentUser
                    /\ loading' = FALSE
                    /\ content' = TRUE
                    /\ page' = page
                    /\ IF UpdateUserInfoThrows(currentUser')
                         THEN /\ cpc' = "failed"
                              /\ error' = TRUE
                              /\ errorMessage' = BigIntError(currentUser'.id).message
                              /\ failedStep' = "updateUserInfo"
                              /\ pending' = pending \ {"authenticate"}
                              /\ completed' = completed \cup {"authenticate"}
                              /\ UNCHANGED <<steps, userDom, chanVars, guildVars>>
                         ELSE /\ UNCHANGED <<error, errorMessage>>
                              /\ avatarSrc' = UserDomAfter(currentUser')[1]
                              /\ userName' = UserDomAfter(currentUser')[2]
                              /\ IF Truthy(sdk.channelId)
                                   THEN /\ cpc' = "awaitChannel"
                                        /\ Then("authenticate", "getChannel")
                                        /\ UNCHANGED <<chanVars, guildVars>>
                                   ELSE /\ channelResult' = NullChannel
                                        /\ channelName' = channelName
                                        /\ GuildStep("authenticate", TRUE)
    /\ UNCHANGED <<toolVars, srvVars, frameId, sdk, accessToken, authenticateArg, fnVars, clickVars>>

\* a getVoiceChannelInfo() without its try/catch: a rejection of getChannel
\* reaches main()
ChannelSettlesNoCatch ==
    /\ cpc = "awaitChannel"
    /\ \/ \E n \in ChannelNames :
             /\ channelResult' = [ret |-> "channel", name |-> n]
             /\ channelName' = "# " \o n
             /\ GuildStep("getChannel", TRUE)
             /\ UNCHANGED uiVars
       \/ /\ \E e \in Rejections : Catch("getChannel", e)
          /\ UNCHANGED <<chanVars, guildVars>>
    /\ UNCHANGED <<toolVars, srvVars, frameId, sdk, accessToken, currentUser, authVars, userDom,
                   fnVars, clickVars>>

\* await discordSdk.commands.getChannel() settles; getVoiceChannelInfo
\* catches a rejection and returns null, updateChannelInfo shows the name of
\* a channel, then updateGuildInfo() runs
ChannelSettles ==
    /\ cpc = "awaitChannel"
    /\ \/ \E n \in ChannelNames :
             /\ channelResult' = [ret |-> "channel", name |-> n]
             /\ channelName' = "# " \o n
             /\ GuildStep("getChannel", TRUE)
       \/ /\ channelResult' = NullChannel
          /\ channelName' = channelName
          /\ GuildStep("getChannel", FALSE)
    /\ UNCHANGED <<toolVars, srvVars, frameId, sdk, accessToken, currentUser, uiVars, authVars,
                   userDom, fnVars, clickVars>>

\* getGuildInfo(): await fetch(.../users/@me/guilds) settles; a rejection or a
\* non-success status ends in its catch (null), a success status goes on to
\* await response.json()
GuildsSettles ==
    /\ cpc = "awaitGuilds"
    /\ \/ /\ \E o \in { g \in GuildFetchOutcomes : g.kind \in {"reject", "notok"} } :
                /\ guildFetch' = o
                /\ guildResult' = GuildInfoAfter(o)
                /\ appTitle' = GuildDomAfter(guildResult')[1]
                /\ guildImage' = GuildDomAfter(guildResult')[2]
          /\ SettledLast("guilds", FALSE)
          /\ cpc' = "done"
       \/ /\ cpc' = "awaitGuildsJson"
          /\ guildFetch' = [kind |-> "ok", list |-> <<>>]
          /\ UNCHANGED <<guildResult, appTitle, guildImage, histVars>>
    /\ UNCHANGED <<toolVars, srvVars, frameId, sdk, accessToken, currentUser, uiVars, authVars,
                   userDom, chanVars, fnVars, clickVars>>

\* getGuildInfo(): await response.json() settles with the list of guilds or
\* rejects; updateGuildInfo() then shows the guild that was found
GuildsJsonSettles ==
    /\ cpc = "awaitGuildsJson"
    /\ \E o \in { g \in GuildFetchOutcomes : g.kind \in {"badjson", "list"} } :
          /\ guildFetch' = o
          /\ guildResult' = GuildInfoAfter(o)
          /\ appTitle' = GuildDomAfter(guildResult')[1]
          /\ guildImage' = GuildDomAfter(guildResult')[2]
          /\ SettledLast("guilds", o.kind = "list")
    /\ cpc' = "done"
    /\ UNCHANGED <<toolVars, srvVars, frameId, sdk, accessToken, currentUser, uiVars, authVars,
                   userDom, chanVars, fnVars, clickVars>>

\* getVoiceChannelInfo() called by caller, up to its first await: without a
\* channel id it returns null, else it invokes getChannel and is suspended
VoiceInfoCall(caller) ==
    [caller |-> caller,
     st |-> IF Truthy(sdk.channelId) THEN "awaiting" ELSE "done",
     getChannel |-> Truthy(sdk.channelId),
     settled |-> "none",
     ret |-> IF Truthy(sdk.channelId) THEN NoChannelResult ELSE NullChannel,
     voice |-> FALSE]

\* showOutput(data): the panel is shown with JSON.stringify(data)
ShowOutput(isNull, data) == [shown |-> TRUE, null |-> isNull, obj |-> Json(data)]

\* a click on #btn-voice-info, whose handler setupEventHandlers() registered
\* at the end of main(): getVoiceChannelInfo(), then showOutput(channel)
ClickVoiceInfo ==
    /\ cpc = "done"
    /\ Len(channelCalls) + Len(guildCalls) < MaxCalls
    /\ channelCalls' = Append(channelCalls, VoiceInfoCall("btn-voice-info"))
    /\ output' = IF Truthy(sdk.channelId) THEN output ELSE ShowOutput(TRUE, {})
    /\ UNCHANGED <<toolVars, srvVars, frameId, sdk, cpc, accessToken, currentUser,
                   uiVars, histVars, authVars, userDom, chanVars, guildVars,
                   fnVars, guildCalls>>

\* a click on #btn-participants: without a channel id the handler shows an
\* error and does not call getVoiceChannelInfo()
ClickParticipants ==
    /\ cpc = "done"
    /\ Len(channelCalls) + Len(guildCalls) < MaxCalls
    /\ IF Truthy(sdk.channelId)
         THEN /\ channelCalls' =
                    Append(channelCalls, VoiceInfoCall("btn-participants"))
              /\ output' = output
         ELSE /\ channelCalls' =
                    Append(channelCalls,
                           [VoiceInfoCall("btn-participants")
                              EXCEPT !.ret = NoChannelResult])
              /\ output' = ShowOutput(FALSE,
                                      { <<"error", "Not in a voice channel">> })
    /\ UNCHANGED <<toolVars, srvVars, frameId, sdk, cpc, accessToken, currentUser,
                   uiVars, histVars, authVars, userDom, chanVars, guildVars,
                   fnVars, guildCalls>>

\* a module that imports getVoiceChannelInfo from this one calls it
ImportedCall ==
    /\ sdk.constructed
    /\ Len(channelCalls) + Len(guildCalls) < MaxCalls
    /\ channelCalls' = Append(channelCalls, VoiceInfoCall("import"))
    /\ UNCHANGED <<toolVars, srvVars, frameId, sdk, cpc, accessToken, currentUser,
                   uiVars, histVars, authVars, userDom, chanVars, guildVars,
                   fnVars, guildCalls, output>>

\* await discordSdk.commands.getChannel() of call i settles: the channel is
\* returned, a rejection is caught and null is returned; the click handler
\* that made the call then shows its output
CallChannelSettles(i) ==
    /\ i \in DOMAIN channelCalls
    /\ channelCalls[i].st = "awaiting"
    /\ \E o \in { [kind |-> "resolve", name |-> n, voice |-> v] :
                      n \in ChannelNames, v \in BOOLEAN }
                 \cup { [kind |-> "reject", name |-> "", voice |-> FALSE] } :
          LET ret == IF o.kind = "resolve"
                       THEN [ret |-> "channel", name |-> o.name]
                       ELSE NullChannel
              caller == channelCalls[i].caller
          IN /\ channelCalls' =
                   [channelCalls EXCEPT ![i].st = "done", ![i].settled = o.kind,
                                        ![i].ret = ret, ![i].voice = o.voice]
             /\ output' =
                   CASE caller = "btn-voice-info" ->
                          ShowOutput(ret = NullChannel,
                                     IF ret = NullChannel THEN {}
                                     ELSE { <<"id", sdk.channelId>>,
                                            <<"name", ret.name>>,
                                            <<"voice_states",
                                              IF o.voice THEN "[]" ELSE UNDEF>> })
                     [] caller = "btn-participants" ->
                          IF ret # NullChannel /\ o.voice
                            THEN ShowOutput(FALSE, { <<"channel", ret.name>>,
                                                     <<"participants", "[]">> })
                            ELSE ShowOutput(FALSE,
                                   { <<"message",
                                       "No voice state information available">> })
                     [] OTHER -> output
    /\ UNCHANGED <<toolVars, srvVars, frameId, sdk, cpc, accessToken, currentUser,
                   uiVars, histVars, authVars, userDom, chanVars, guildVars,
                   fnVars, guildCalls>>

\* a module that imports getGuildInfo from this one calls it: without an
\* access token or a guild id it returns null at once, else it requests the
\* guild list with the token as bearer and is suspended (bearer: the
\* accessToken the call read)
ImportedGuildCall ==
    /\ sdk.constructed
    /\ Len(channelCalls) + Len(guildCalls) < MaxCalls
    /\ guildCalls' =
          Append(guildCalls,
                 IF Truthy(accessToken) /\ sdk.guildId # NoId
                   THEN [st |-> "awaitFetch", bearer |-> accessToken,
                         fetch |-> [kind |-> "none", list |-> <<>>],
                         ret |-> [ret |-> "none", guild |-> NoGuild]]
                   ELSE [st |-> "done", bearer |-> accessToken,
                         fetch |-> [kind |-> "none", list |-> <<>>],
                         ret |-> NullGuild])
    /\ UNCHANGED <<toolVars, srvVars, frameId, sdk, cpc, accessToken, currentUser,
                   uiVars, histVars, authVars, userDom, chanVars, guildVars,
                   fnVars, channelCalls, output>>

\* await fetch(.../users/@me/guilds) of an imported call settles: a rejection
\* or a non-success status ends in the catch (null), a success status goes on
\* to await response.json()
ImportedGuildFetchSettles(i) ==
    /\ i \in DOMAIN guildCalls
    /\ guildCalls[i].st = "awaitFetch"
    /\ \/ \E o \in { g \in GuildFetchOutcomes : g.kind \in {"reject", "notok"} } :
             guildCalls' = [guildCalls EXCEPT ![i].st = "done", ![i].fetch = o,
                                              ![i].ret = GuildInfoAfter(o)]
       \/ guildCalls' = [guildCalls EXCEPT ![i].st = "awaitJson",
                                           ![i].fetch = [kind |-> "ok",
                                                         list |-> <<>>]]
    /\ UNCHANGED <<toolVars, srvVars, frameId, sdk, cpc, accessToken, currentUser,
                   uiVars, histVars, authVars, userDom, chanVars, guildVars,
                   fnVars, channelCalls, output>>

\* await response.json() of an imported call settles with the list of guilds
\* or rejects; the call returns the guild that was found, or null
ImportedGuildJsonSettles(i) ==
    /\ i \in DOMAIN guildCalls
    /\ guildCalls[i].st = "awaitJson"
    /\ \E o \in { g \in GuildFetchOutcomes : g.kind \in {"badjson", "list"} } :
          guildCalls' = [guildCalls EXCEPT ![i].st = "done", ![i].fetch = o,
                                           ![i].ret = GuildInfoAfter(o)]
    /\ UNCHANGED <<toolVars, srvVars, frameId, sdk, cpc, accessToken, currentUser,
                   uiVars, histVars, authVars, userDom, chanVars, guildVars,
                   fnVars, channelCalls, output>>

(* ---------------------------------------------------------------------- *)
(* Command-line tools: strings and the .env file                           *)
(* ---------------------------------------------------------------------- *)

\* A string of the tools is the sequence of its characters.

\* s.includes(sub)
Includes(s, sub) ==
    \E i \in 1 .. (Len(s) - Len(sub) + 1) : SubSeq(s, i, i + Len(sub) - 1) = sub

RECURSIVE TrimLeft(_)
TrimLeft(s) == IF s # <<>> /\ s[1] = " " THEN TrimLeft(Tail(s)) ELSE s

RECURSIVE TrimRight(_)
TrimRight(s) ==
    IF s # <<>> /\ s[Len(s)] = " " THEN TrimRight(SubSeq(s, 1, Len(s) - 1)) ELSE s

\* the value dotenv gives to the line KEY=raw: trimmed, and without the double
\* quotes that surround it
DotenvValue(raw) ==
    LET s == TrimRight(TrimLeft(raw))
    IN IF Len(s) >= 2 /\ s[1] = "\"" /\ s[Len(s)] = "\""
         THEN SubSeq(s, 2, Len(s) - 1)
         ELSE s

EnvKeys == {"VITE_CLIENT_ID", "CLIENT_SECRET", "APP_NAME", "PORT", "CLIENT_PORT",
            "NODE_ENV"}

\* a .env file: missing, unreadable, or a file with a line for some keys
NoEnvFile == [state |-> "missing", keys |-> {}, raw |-> [k \in EnvKeys |-> <<>>]]
UnreadableEnvFile ==
    [state |-> "unreadable", keys |-> {}, raw |-> [k \in EnvKeys |-> <<>>]]

\* envConfig.parsed
DotenvParse(f) == [k \in f.keys |-> DotenvValue(f.raw[k])]

\* env[key]; a key without a line is falsy like the empty string
EnvGet(e, k) == IF k \in DOMAIN e THEN e[k] ELSE <<>>

\* env[key].includes('your_') || env[key].includes('_here')
IsPlaceholder(v) ==
    \/ Includes(v, <<"y", "o", "u", "r", "_">>)
    \/ Includes(v, <<"_", "h", "e", "r", "e">>)

(* ---------------------------------------------------------------------- *)
(* Command-line tools: validateEnv                                         *)
(* ---------------------------------------------------------------------- *)

\* createResult(valid, errors, warnings)
createResult(valid, errors, warnings) ==
    [valid |-> valid, errors |-> errors, warnings |-> warnings]

RequiredVars ==
    << [key |-> "VITE_CLIENT_ID", desc |-> "Discord Client ID"],
       [key |-> "CLIENT_SECRET", desc |-> "Discord Client Secret"] >>

OptionalVars ==
    << [key |-> "APP_NAME", desc |-> "Application Name", default |-> "My Discord Mini App"],
       [key |-> "PORT", desc |-> "Server Port", default |-> "3001"],
       [key |-> "CLIENT_PORT", desc |-> "Client Port", default |-> "3000"] >>

\* a check of a required variable that reports every rule the value breaks
RequiredErrorEveryRule(e, r) ==
    LET v == EnvGet(e, r.key)
    IN (IF v = <<>>
          THEN << "Missing required variable: " \o r.key \o " (" \o r.desc \o ")" >>
          ELSE <<>>)
       \o (IF IsPlaceholder(v)
             THEN << r.key \o " appears to be a placeholder value" >> ELSE <<>>)
       \o (IF v # <<>> /\ Len(v) < 10
             THEN << r.key \o " appears to be invalid (too short)" >> ELSE <<>>)

\* validateEnv: the errors one required variable adds
RequiredError(e, r) ==
    LET v == EnvGet(e, r.key)
    IN IF v = <<>>
         THEN << "Missing required variable: " \o r.key \o " (" \o r.desc \o ")" >>
       ELSE IF IsPlaceholder(v)
         THEN << r.key \o " appears to be a placeholder value" >>
       ELSE IF Len(v) < 10
         THEN << r.key \o " appears to be invalid (too short)" >>
       ELSE <<>>

\* validateEnv: the warnings one optional variable adds
OptionalWarning(e, o) ==
    IF EnvGet(e, o.key) = <<>>
      THEN << o.key \o " (" \o o.desc \o ") not set, using default: " \o o.default >>
      ELSE <<>>

\* validateEnv(rootDir), given the .env file of rootDir
validateEnv(f) ==
    IF f.state = "missing"
      THEN createResult(FALSE, << ".env file not found" >>, <<>>)
    ELSE IF f.state = "unreadable"
      THEN createResult(FALSE, << "Failed to parse .env file: EISDIR" >>, <<>>)
    ELSE LET parsed == DotenvParse(f)
             errors == RequiredError(parsed, RequiredVars[1])
                         \o RequiredError(parsed, RequiredVars[2])
             warnings == OptionalWarning(parsed, OptionalVars[1])
                           \o OptionalWarning(parsed, OptionalVars[2])
                           \o OptionalWarning(parsed, OptionalVars[3])
         IN createResult(errors = <<>>, errors, warnings)

(* ---------------------------------------------------------------------- *)
(* Command-line tools: check-env                                           *)
(* ---------------------------------------------------------------------- *)

RequiredFiles ==
    { "packages/client/package.json", "packages/server/package.json",
      "packages/client/src/main.ts", "packages/server/src/app.ts" }

\* an exit status that counts warnings as failures
CheckEnvExitStrict(hasErrors, hasWarnings) ==
    IF hasErrors \/ hasWarnings THEN 1 ELSE 0

\* check-env: process.exit(1) when hasErrors, else the process ends
CheckEnvExit(hasErrors, hasWarnings) == IF hasErrors THEN 1 ELSE 0

\* checkEnvironment(): the flags it ends with
checkEnvironment(inp) ==
    LET f == inp.envFile
        parsed == DotenvParse(f)
        notConfigured(key) ==
            EnvGet(parsed, key) = <<>> \/ IsPlaceholder(EnvGet(parsed, key))
        envErrors ==
            IF f.state # "file" THEN TRUE
            ELSE \E i \in DOMAIN RequiredVars : notConfigured(RequiredVars[i].key)
        envWarnings ==
            /\ f.state = "file"
            /\ \E k \in {"APP_NAME", "PORT"} : EnvGet(parsed, k) = <<>>
    IN [hasErrors |-> envErrors \/ RequiredFiles \ inp.present # {},
        hasWarnings |-> envWarnings \/ ~inp.nodeModules]

(* ---------------------------------------------------------------------- *)
(* Command-line tools: the setup wizard                                    *)
(* ---------------------------------------------------------------------- *)

\* what a tool finds when it starts
NoToolInput ==
    [tool |-> "none", installed |-> {}, envFile |-> NoEnvFile, present |-> {},
     nodeModules |-> FALSE, existing |-> {}, argName |-> <<>>, yes |-> FALSE,
     argId |-> <<>>, argSecret |-> <<>>, skipInstall |-> FALSE, dirname |-> FALSE,
     template |-> <<>>]

NoAnswers ==
    [clientId |-> <<>>, clientSecret |-> <<>>, appName |-> <<>>, retried |-> FALSE,
     item |-> 0]

Prerequisites ==
    << [cmd |-> "node", required |-> TRUE], [cmd |-> "npm", required |-> TRUE],
       [cmd |-> "git", required |-> FALSE], [cmd |-> "cloudflared", required |-> FALSE] >>

\* a prerequisite check that takes every tool for required
MissingRequiredAnyTool(installed) ==
    { Prerequisites[i].cmd : i \in { j \in DOMAIN Prerequisites :
          Prerequisites[j].cmd \notin installed } }

\* missingRequired: the required commands that `which` does not find
MissingRequired(installed) ==
    { Prerequisites[i].cmd : i \in { j \in DOMAIN Prerequisites :
          Prerequisites[j].required /\ Prerequisites[j].cmd \notin installed } }

\* what the user types at the credential prompts
TypedValues ==
    { <<>>, <<"1", "2", "3", "4", "5">>, <<"1", "2", "3", "4", "5", "6", "7", "8", "9">>, <<"1", "2", "3", "4", "5", "6", "7", "8", "9", "0">>, <<"1", "2", "3", "4", "5", "6", "7", "8", "9", "0", "1", "2", "3", "4", "5", "6", "7", "8">>,
      <<"y", "o", "u", "r", "_", "c", "l", "i", "e", "n", "t", "_", "i", "d", "_", "h", "e", "r", "e">>, <<"a", "b", "c", "_", "h", "e", "r", "e", "1", "2">> }

\* a prompt that accepts every input
CredentialValidAnything(input) == TRUE

\* validate: (input) => !input || input.length < 10 ? message : true
CredentialValid(input) == ~(input = <<>> \/ Len(input) < 10)

\* the .env file of Step 5, made of the answers
WizardEnvFile(ans) ==
    [state |-> "file",
     keys |-> EnvKeys,
     raw |-> [VITE_CLIENT_ID |-> ans.clientId,
              CLIENT_SECRET |-> ans.clientSecret,
              APP_NAME |-> <<"\"">> \o ans.appName \o <<"\"">>,
              PORT |-> <<"3", "0", "0", "1">>,
              CLIENT_PORT |-> <<"3", "0", "0", "0">>,
              NODE_ENV |-> <<"d", "e", "v", "e", "l", "o", "p", "m", "e", "n", "t">>]]

\* the tool goes to position p and logs stage l
Stage(p, l) == tpc' = p /\ toolLog' = Append(toolLog, l)

\* process.exit(1)
ToolExit1 == tpc' = "exited" /\ toolExit' = 1

\* runWizard() up to the first prompt: Step 1, the prerequisite check
WizardStart ==
    /\ tpc = "start" /\ tin.tool = "wizard"
    /\ IF MissingRequired(tin.installed) # {}
         THEN ToolExit1 /\ toolLog' = Append(toolLog, "prerequisites")
         ELSE /\ tpc' = "askHasApp"
              /\ toolLog' = toolLog \o <<"prerequisites", "ask hasDiscordApp">>
              /\ toolExit' = toolExit
    /\ UNCHANGED <<tin, tans, dotenv, written, tres>>

\* Step 2: the answer to 'Do you already have a Discord Application created?'
AnswerHasApp ==
    /\ tpc = "askHasApp"
    /\ \/ Stage("askClientId", "ask clientId")
       \/ /\ tpc' = "askOpenBrowser"
          /\ toolLog' = toolLog \o <<"guidance", "ask openBrowser">>
    /\ UNCHANGED <<tin, tans, dotenv, written, toolExit, tres>>

\* the answer to 'open the Discord Developer Portal in your browser?'; when
\* opening the browser fails runWizard() rejects and the process ends
AnswerOpenBrowser ==
    /\ tpc = "askOpenBrowser"
    /\ \/ Stage("askContinue", "ask continue") /\ toolExit' = toolExit
       \/ /\ tpc' = "askContinue"
          /\ toolLog' = toolLog \o <<"open browser", "ask continue">>
          /\ toolExit' = toolExit
       \/ /\ tpc' = "crashed"
          /\ toolLog' = Append(toolLog, "open browser failed")
          /\ toolExit' = 0
    /\ UNCHANGED <<tin, tans, dotenv, written, tres>>

\* 'Press Enter when you've created your application ...'
AnswerContinue ==
    /\ tpc = "askContinue"
    /\ Stage("askClientId", "ask clientId")
    /\ UNCHANGED <<tin, tans, dotenv, written, toolExit, tres>>

\* Step 3: the client id is typed; the prompt asks again until validate
\* accepts the input
AnswerClientId ==
    /\ tpc = "askClientId"
    /\ \E input \in TypedValues :
          IF CredentialValid(input)
            THEN /\ tans' = [tans EXCEPT !.clientId = input]
                 /\ Stage("askClientSecret", "ask clientSecret")
            ELSE /\ tans' = [tans EXCEPT !.retried = TRUE]
                 /\ UNCHANGED <<tpc, toolLog>>
    /\ UNCHANGED <<tin, dotenv, written, toolExit, tres>>

\* Step 3: the client secret is typed
AnswerClientSecret ==
    /\ tpc = "askClientSecret"
    /\ \E input \in TypedValues :
          IF CredentialValid(input)
            THEN /\ tans' = [tans EXCEPT !.clientSecret = input]
                 /\ Stage("askProject", "ask project")
            ELSE /\ tans' = [tans EXCEPT !.retried = TRUE]
                 /\ UNCHANGED <<tpc, toolLog>>
    /\ UNCHANGED <<tin, dotenv, written, toolExit, tres>>

\* Step 4: the project configuration is answered; Enter with nothing typed
\* gives the default 'My Discord Mini App', and validate (input.length > 0)
\* sees the answer; Step 5 starts with the write of .env
AnswerProject ==
    /\ tpc = "askProject"
    /\ \E typed \in { <<>>, <<"x">>, <<"P", "a", "r", "t", "y", " ", "G", "a", "m", "e">> } :
          LET input == IF typed = <<>> THEN <<"M", "y", " ", "D", "i", "s", "c", "o", "r", "d", " ", "M", "i", "n", "i", " ", "A", "p", "p">>
                       ELSE typed
          IN IF Len(input) > 0
               THEN /\ tans' = [tans EXCEPT !.appName = input]
                    /\ Stage("writeEnv", "project")
               ELSE /\ tans' = [tans EXCEPT !.retried = TRUE]
                    /\ UNCHANGED <<tpc, toolLog>>
    /\ UNCHANGED <<tin, dotenv, written, toolExit, tres>>

\* await fs.writeFile(.env) settles; a failure ends in catch: process.exit(1)
WriteEnvSettles ==
    /\ tpc = "writeEnv"
    /\ \/ /\ dotenv' = WizardEnvFile(tans)
          /\ written' = Append(written, ".env")
          /\ Stage("writeExample", "write .env")
          /\ toolExit' = toolExit
       \/ /\ ToolExit1
          /\ UNCHANGED <<dotenv, written, toolLog>>
    /\ UNCHANGED <<tin, tans, tres>>

\* await fs.writeFile(.env.example) settles
WriteExampleSettles ==
    /\ tpc = "writeExample"
    /\ \/ /\ written' = Append(written, ".env.example")
          /\ Stage("writeConfig", "write .env.example")
          /\ toolExit' = toolExit
       \/ /\ ToolExit1
          /\ UNCHANGED <<written, toolLog>>
    /\ UNCHANGED <<tin, tans, dotenv, tres>>

\* await fs.writeFile(miniapp.config.json) settles, then npm install runs
\* (execSync) and, when it succeeds, Step 6 asks whether to start the dev
\* server
WriteConfigSettles ==
    /\ tpc = "writeConfig"
    /\ \/ /\ written' = Append(written, "miniapp.config.json")
          /\ \/ /\ tpc' = "askStartDev"
                /\ toolLog' = toolLog \o <<"write miniapp.config.json", "npm install",
                                           "ask startDev">>
                /\ toolExit' = toolExit
             \/ /\ ToolExit1
                /\ toolLog' = toolLog \o <<"write miniapp.config.json",
                                           "npm install failed">>
       \/ /\ ToolExit1
          /\ UNCHANGED <<written, toolLog>>
    /\ UNCHANGED <<tin, tans, dotenv, tres>>

\* the answer to 'start the development server now?'
AnswerStartDev ==
    /\ tpc = "askStartDev"
    /\ \/ Stage("done", "spawn npm run dev") /\ toolExit' = toolExit
       \/ tpc' = "done" /\ toolExit' = 0 /\ toolLog' = toolLog
    /\ UNCHANGED <<tin, tans, dotenv, written, tres>>

(* ---------------------------------------------------------------------- *)
(* Command-line tools: the create command                                  *)
(* ---------------------------------------------------------------------- *)

\* name.toLowerCase().replace(/\s+/g, '-'), with toLowerCase() on the letters
\* of the names used here
RECURSIVE Slug(_)
Slug(name) ==
    IF name = <<>> THEN <<>>
    ELSE IF name[1] = " "
      THEN <<"-">> \o Slug(TrimLeft(name))
      ELSE LET lower == CASE name[1] = "M" -> "m" [] name[1] = "A" -> "a"
                            [] OTHER -> name[1]
           IN <<lower>> \o Slug(Tail(name))

ProjectNames == { <<"m", "y", "-", "d", "i", "s", "c", "o", "r", "d", "-", "m", "i", "n", "i", "a", "p", "p">>, <<"M", "y", " ", "A", "p", "p">>, <<"M", "y", " ", " ", "A", "p", "p">> }

\* what the create command makes, in order: the directories, the copied
\* files and the generated files
CreateItems ==
    << "packages/client/src/", "packages/server/src/",
       "packages/client/package.json", "packages/client/vite.config.ts",
       "packages/client/tsconfig.json", "packages/client/index.html",
       "packages/client/src/main.ts", "packages/client/src/styles.css",
       "packages/client/src/vite-env.d.ts", "packages/server/package.json",
       "packages/server/tsconfig.json", "packages/server/src/app.ts",
       "packages/server/src/environment.d.ts", "package.json", ".env.example",
       ".gitignore", "README.md", "miniapp.config.json" >>

\* an existence check whose exit is swallowed by its own catch
AfterAccessSwallowed(exists) == "creating"

\* try { await fs.access(projectPath); process.exit(1) } catch {}
AfterAccess(exists) == IF exists THEN "exited" ELSE "creating"

\* the project name is known: the existence check of projectPath
CheckTarget(name) ==
    LET projectName == IF name = <<>> THEN <<"m", "y", "-", "d", "i", "s", "c", "o", "r", "d", "-", "m", "i", "n", "i", "a", "p", "p">> ELSE name
        next == AfterAccess(Slug(projectName) \in tin.existing)
    IN /\ tans' = [tans EXCEPT !.appName = projectName]
       /\ tpc' = next
       /\ toolLog' = Append(toolLog, "access")
       /\ toolExit' = IF next = "exited" THEN 1 ELSE toolExit

\* createNewProject() up to its first await
CreateStart ==
    /\ tpc = "start" /\ tin.tool = "create"
    /\ IF tin.argName = <<>> /\ ~tin.yes
         THEN /\ Stage("askName", "ask name")
              /\ UNCHANGED <<tans, toolExit>>
         ELSE CheckTarget(tin.argName)
    /\ UNCHANGED <<tin, dotenv, written, tres>>

\* the name prompt is answered (its validate accepts the names used here)
AnswerName ==
    /\ tpc = "askName"
    /\ \E name \in ProjectNames : CheckTarget(name)
    /\ UNCHANGED <<tin, dotenv, written, tres>>

\* the next mkdir, copy or write settles; items 3 to 13 are made by copyFile,
\* which skips the item when reading the source, making the directory or
\* writing the file fails with ENOENT (a missing source always does); any
\* other failure ends in catch: process.exit(1)
CreateItemSettles ==
    /\ tpc = "creating"
    /\ LET item == tans.item + 1
           last == item = Len(CreateItems)
           copied == item \in 3 .. 13
       IN \/ /\ copied => CreateItems[item] \in tin.present
             /\ written' = Append(written, CreateItems[item])
             /\ tans' = [tans EXCEPT !.item = item]
             /\ tpc' = IF last THEN "done" ELSE tpc
             /\ toolExit' = IF last THEN 0 ELSE toolExit
             /\ toolLog' = toolLog
          \/ /\ copied
             /\ tans' = [tans EXCEPT !.item = item]
             /\ toolLog' = Append(toolLog, "skipped")
             /\ UNCHANGED <<written, tpc, toolExit>>
          \/ /\ ToolExit1
             /\ UNCHANGED <<written, toolLog, tans>>
    /\ UNCHANGED <<tin, dotenv, tres>>

(* ---------------------------------------------------------------------- *)
(* Command-line tools: the quick setup command                             *)
(* ---------------------------------------------------------------------- *)

\* quickSetup() up to its first await: without --client-id or
\* --client-secret it exits with status 1, else it writes .env with the
\* options as they are
SetupStart ==
    /\ tpc = "start" /\ tin.tool = "setup"
    /\ IF tin.argId = <<>> \/ tin.argSecret = <<>>
         THEN ToolExit1 /\ UNCHANGED <<tans, toolLog>>
         ELSE /\ tans' = [tans EXCEPT
                            !.clientId = tin.argId,
                            !.clientSecret = tin.argSecret,
                            !.appName = IF tin.argName = <<>>
                                          THEN <<"M", "y", " ", "D", "i", "s", "c", "o", "r", "d", " ", "M", "i", "n", "i", " ", "A", "p", "p">>
                                          ELSE tin.argName]
              /\ Stage("setupWriteEnv", "options")
              /\ toolExit' = toolExit
    /\ UNCHANGED <<tin, dotenv, written, tres>>

\* quickSetup(): await fs.writeFile(.env) settles; its lines are those of the
\* wizard's .env
SetupEnvSettles ==
    /\ tpc = "setupWriteEnv"
    /\ \/ /\ dotenv' = WizardEnvFile(tans)
          /\ written' = Append(written, ".env")
          /\ Stage("setupWriteConfig", "write .env")
          /\ toolExit' = toolExit
       \/ /\ ToolExit1
          /\ UNCHANGED <<dotenv, written, toolLog>>
    /\ UNCHANGED <<tin, tans, tres>>

\* quickSetup(): await fs.writeFile(miniapp.config.json) settles, then npm
\* install runs unless --skip-install was given
SetupConfigSettles ==
    /\ tpc = "setupWriteConfig"
    /\ \/ /\ written' = Append(written, "miniapp.config.json")
          /\ \/ /\ tpc' = "done" /\ toolExit' = 0
                /\ toolLog' = toolLog \o (IF tin.skipInstall
                                             THEN <<"write miniapp.config.json">>
                                             ELSE <<"write miniapp.config.json",
                                                    "npm install">>)
             \/ /\ ~tin.skipInstall
                /\ ToolExit1
                /\ toolLog' = toolLog \o <<"write miniapp.config.json",
                                           "npm install failed">>
       \/ /\ ToolExit1
          /\ UNCHANGED <<written, toolLog>>
    /\ UNCHANGED <<tin, tans, dotenv, tres>>

(* ---------------------------------------------------------------------- *)
(* Command-line tools: the library function createProject                  *)
(* ---------------------------------------------------------------------- *)

\* createProject(options) up to its first await, fs.mkdir(projectDir); the
\* name defaults to 'my-discord-miniapp' and there is no test of whether
\* projectDir exists
LibCreateStart ==
    /\ tpc = "start" /\ tin.tool = "createProject"
    /\ tans' = [tans EXCEPT !.appName =
                  IF tin.argName = <<>> THEN <<"m", "y", "-", "d", "i", "s", "c", "o", "r", "d", "-", "m", "i", "n", "i", "a", "p", "p">>
                  ELSE tin.argName]
    /\ Stage("libMkdir", "mkdir")
    /\ UNCHANGED <<tin, dotenv, written, toolExit, tres>>

\* await fs.mkdir(projectDir, { recursive: true }) settles: an existing
\* directory is left as it is; then path.resolve(__dirname, ...) throws a
\* ReferenceError where the module has no __dirname, else copyDirectory starts
LibMkdirSettles ==
    /\ tpc = "libMkdir"
    /\ \/ /\ written' = IF Slug(tans.appName) \in tin.existing THEN written
                         ELSE Append(written, "project directory")
          /\ IF tin.dirname THEN Stage("libCopy", "copyDirectory")
                            ELSE Stage("threw", "ReferenceError")
       \/ /\ Stage("threw", "mkdir failed")
          /\ written' = written
    /\ UNCHANGED <<tin, tans, dotenv, toolExit, tres>>

\* the next await of copyDirectory(templateDir, projectDir) settles:
\* fs.mkdir(dest), fs.readdir(src), then fs.copyFile of each entry of the
\* template in turn; a rejection (no such template, or a failure on the way)
\* ends the copy where it is, with the entries copied so far, and the catch
\* of createProject goes on; package.json is written next
LibCopySettles ==
    /\ tpc = "libCopy"
    /\ LET item == tans.item
           entries == Len(tin.template)
           last == IF item < 2 THEN item = 1 /\ entries = 0 ELSE item - 1 = entries
       IN \/ /\ written' = IF item < 2 THEN written
                            ELSE Append(written, tin.template[item - 1])
             /\ tans' = [tans EXCEPT !.item = IF last THEN 0 ELSE item + 1]
             /\ tpc' = IF last THEN "libWrite" ELSE tpc
             /\ toolLog' = toolLog
          \/ /\ Stage("libWrite", "Using default template...")
             /\ tans' = [tans EXCEPT !.item = 0]
             /\ written' = written
    /\ UNCHANGED <<tin, dotenv, toolExit, tres>>

\* the next fs.writeFile of createProject settles: package.json,
\* .env.example, miniapp.config.json; after the last the function returns, a
\* failure rejects its promise
LibWriteSettles ==
    /\ tpc = "libWrite"
    /\ LET files == <<"package.json", ".env.example", "miniapp.config.json">>
           item == tans.item + 1
       IN \/ /\ written' = Append(written, files[item])
             /\ tans' = [tans EXCEPT !.item = item]
             /\ tpc' = IF item = Len(files) THEN "returned" ELSE tpc
             /\ toolLog' = toolLog
          \/ /\ Stage("threw", "write failed")
             /\ UNCHANGED <<written, tans>>
    /\ UNCHANGED <<tin, dotenv, toolExit, tres>>

(* ---------------------------------------------------------------------- *)
(* Command-line tools: runs of validateEnv and check-env                   *)
(* ---------------------------------------------------------------------- *)

\* one call of validateEnv
RunValidateEnv ==
    /\ tpc = "start" /\ tin.tool = "validateEnv"
    /\ tres' = validateEnv(tin.envFile)
    /\ tpc' = "done"
    /\ UNCHANGED <<tin, tans, dotenv, written, toolExit, toolLog>>

\* one run of check-env
RunCheckEnv ==
    /\ tpc = "start" /\ tin.tool = "check-env"
    /\ LET c == checkEnvironment(tin)
       IN /\ tres' = createResult(~c.hasErrors,
                                  IF c.hasErrors THEN <<"hasErrors">> ELSE <<>>,
                                  IF c.hasWarnings THEN <<"hasWarnings">> ELSE <<>>)
          /\ toolExit' = CheckEnvExit(c.hasErrors, c.hasWarnings)
          /\ tpc' = IF toolExit' = 0 THEN "done" ELSE "exited"
    /\ UNCHANGED <<tin, tans, dotenv, written, toolLog>>

(* ---------------------------------------------------------------------- *)
(* Specification                                                           *)
(* ---------------------------------------------------------------------- *)

\* the state before any module ran, but for the environment, the page URL
\* and the URL builder call
\* the server and the page before anything ran
AppIdle ==
    /\ srv = "boot"
    /\ exitCode = -1
    /\ config = [clientPort |-> NaN, clientId |-> UNDEF, clientSecret |-> UNDEF,
                 isProduction |-> FALSE, appName |-> "Discord Mini App"]
    /\ corsOptions = [origin |-> <<>>, credentials |-> FALSE]
    /\ reqs = [r \in ReqIds |-> FreeReq]
    /\ outbound = {}
    /\ sdk = [constructed |-> FALSE, channelId |-> NULL, guildId |-> NoId]
    /\ cpc = "load"
    /\ page = "app"
    /\ accessToken = NULL
    /\ currentUser = NoUser
    /\ loading = TRUE
    /\ content = FALSE
    /\ error = FALSE
    /\ errorMessage = ""
    /\ steps = <<>>
    /\ pending = {}
    /\ completed = {}
    /\ failedStep = "none"
    /\ authenticateArg = "none"
    /\ authResult = [kind |-> "none", user |-> NoUser,
                     err |-> [isError |-> FALSE, message |-> ""]]
    /\ avatarSrc = <<>>
    /\ userName = ""
    /\ channelResult = NoChannelResult
    /\ channelName = ""
    /\ guildResult = [ret |-> "none", guild |-> NoGuild]
    /\ guildFetch = [kind |-> "none", list |-> <<>>]
    /\ appTitle = ""
    /\ guildImage = <<>>
    /\ channelCalls = <<>>
    /\ guildCalls = <<>>
    /\ output = [shown |-> FALSE, null |-> FALSE, obj |-> {}]

Idle ==
    /\ AppIdle
    /\ tpc = "idle"
    /\ tin = NoToolInput
    /\ tans = NoAnswers
    /\ dotenv = NoEnvFile
    /\ written = <<>>
    /\ toolExit = -1
    /\ toolLog = <<>>
    /\ tres = createResult(FALSE, <<"none">>, <<"none">>)

Init ==
    /\ env \in Envs
    /\ frameId \in {NULL, "frame_1"}
    /\ fnArgs = <<>>
    /\ fnResult = <<>>
    /\ Idle

ServerNext ==
    \/ ServerStart /\ UNCHANGED <<cliVars, toolVars>>
    \/ \E r \in ExtIds : ExtRequest(r) /\ UNCHANGED <<cliVars, toolVars>>
    \/ \E r \in ReqIds : FetchSettles(r) /\ UNCHANGED <<cliVars, toolVars>>
    \/ \E r \in ReqIds : JsonSettles(r) /\ UNCHANGED <<cliVars, toolVars>>
    \/ \E r \in ExtIds : StaticSettles(r) /\ UNCHANGED <<cliVars, toolVars>>
    \/ \E r \in ExtIds : SendFileSettles(r) /\ UNCHANGED <<cliVars, toolVars>>

ClientNext ==
    \/ ClientLoad
    \/ ReadySettles
    \/ AuthorizeSettles
    \/ ClientRequestArrives
    \/ TokenFetchRejects
    \/ TokenFetchResolves
    \/ TokenTextSettles
    \/ TokenJsonSettles
    \/ AuthenticateSettles
    \/ ChannelSettles
    \/ GuildsSettles
    \/ GuildsJsonSettles
    \/ ClickVoiceInfo
    \/ ClickParticipants
    \/ ImportedCall
    \/ \E i \in 1 .. MaxCalls : CallChannelSettles(i)
    \/ ImportedGuildCall
    \/ \E i \in 1 .. MaxCalls : ImportedGuildFetchSettles(i)
    \/ \E i \in 1 .. MaxCalls : ImportedGuildJsonSettles(i)

Next == ServerNext \/ ClientNext

Spec == Init /\ [][Next]_vars

\* the URL builders applied to each call of UrlCalls
UrlInit ==
    /\ env = [VITE_CLIENT_ID |-> ClientIdValue, CLIENT_SECRET |-> SecretValue,
              NODE_ENV |-> "development", CLIENT_PORT |-> NoPort]
    /\ frameId = "frame_1"
    /\ fnArgs \in UrlCalls
    /\ fnResult = <<>>
    /\ Idle

UrlNext == CallUrlBuilder

UrlSpec == UrlInit /\ [][UrlNext]_vars

\* the server on its own, in every environment and with every request
ServerInit ==
    /\ env \in ServerEnvs
    /\ frameId = NULL
    /\ fnArgs = <<>>
    /\ fnResult = <<>>
    /\ Idle

ServerOnlyNext ==
    \/ ServerStart /\ UNCHANGED <<cliVars, toolVars>>
    \/ \E r \in ExtIds : SrvRequest(r) /\ UNCHANGED <<cliVars, toolVars>>
    \/ \E r \in ExtIds : FetchSettles(r) /\ UNCHANGED <<cliVars, toolVars>>
    \/ \E r \in ExtIds : JsonSettles(r) /\ UNCHANGED <<cliVars, toolVars>>
    \/ \E r \in ExtIds : StaticSettles(r) /\ UNCHANGED <<cliVars, toolVars>>
    \/ \E r \in ExtIds : SendFileSettles(r) /\ UNCHANGED <<cliVars, toolVars>>

ServerSpec == ServerInit /\ [][ServerOnlyNext]_vars

\* the client and the server handling the client's request, every suspended
\* operation eventually settling
ClientSysNext ==
    \/ ServerStart /\ UNCHANGED <<cliVars, toolVars>>
    \/ FetchSettles(0) /\ UNCHANGED <<cliVars, toolVars>>
    \/ JsonSettles(0) /\ UNCHANGED <<cliVars, toolVars>>
    \/ ClientLoad
    \/ ReadySettles
    \/ AuthorizeSettles
    \/ ClientRequestArrives
    \/ TokenFetchRejects
    \/ TokenFetchResolves
    \/ TokenTextSettles
    \/ TokenJsonSettles
    \/ AuthenticateSettles
    \/ ChannelSettles
    \/ GuildsSettles
    \/ GuildsJsonSettles
    \/ ClickVoiceInfo
    \/ ClickParticipants
    \/ ImportedCall
    \/ \E i \in 1 .. MaxCalls : CallChannelSettles(i)
    \/ ImportedGuildCall
    \/ \E i \in 1 .. MaxCalls : ImportedGuildFetchSettles(i)
    \/ \E i \in 1 .. MaxCalls : ImportedGuildJsonSettles(i)

FairSpec ==
    /\ Init /\ [][ClientSysNext]_vars
    /\ WF_vars(ServerStart /\ UNCHANGED <<cliVars, toolVars>>)
    /\ WF_vars(FetchSettles(0) /\ UNCHANGED <<cliVars, toolVars>>)
    /\ WF_vars(JsonSettles(0) /\ UNCHANGED <<cliVars, toolVars>>)
    /\ WF_vars(ClientLoad)
    /\ WF_vars(ReadySettles)
    /\ WF_vars(AuthorizeSettles)
    /\ WF_vars(ClientRequestArrives)
    /\ WF_vars(TokenFetchRejects)
    /\ WF_vars(TokenFetchResolves)
    /\ WF_vars(TokenTextSettles)
    /\ WF_vars(TokenJsonSettles)
    /\ WF_vars(AuthenticateSettles)
    /\ WF_vars(ChannelSettles)
    /\ WF_vars(GuildsSettles)
    /\ WF_vars(GuildsJsonSettles)

\* the environments the tools are started in: validateEnv on .env files whose
\* required and optional variables are unset, empty, short, set, placeholders,
\* padded or quoted; check-env with and without the project files and
\* node_modules; the wizard with every set of installed commands; the create
\* command with and without a name and -y, with existing target paths; the
\* quick setup with and without its options; the library's createProject with
\* and without __dirname in its module, with an empty template directory and
\* one of two files
ToolInputs ==
    LET unset == <<"<unset>">>
        dev == <<"d", "e", "v", "e", "l", "o", "p", "m", "e", "n", "t">>
        ok == <<"1", "2", "3", "4", "5", "6", "7", "8", "9", "0">>
        short == <<"1", "2", "3", "4", "5">>
        placeholder == <<"y", "o", "u", "r", "_", "c", "l", "i", "e", "n", "t", "_", "i", "d", "_", "h", "e", "r", "e">>
        here == <<"a", "b", "c", "_", "h", "e", "r", "e", "1", "2">>
        port == <<"3", "0", "0", "1">>
        requiredRaws ==
            { unset, <<>>, short, <<"1", "2", "3", "4", "5", "6", "7", "8", "9">>, ok, placeholder, here,
              <<"y", "o", "u", "r", "_">>,
              <<" ", "1", "2", "3", "4", "5", "6", "7", "8", "9", "0", " ">>,
              <<"\"", "1", "2", "3", "4", "5", "6", "7", "8", "9", "0", "\"">> }
        optionalRaws == { unset, <<>>, port }
        mkEnvFile(vals) ==
            [state |-> "file",
             keys |-> { k \in EnvKeys : vals[k] # unset },
             raw |-> [k \in EnvKeys |-> IF vals[k] = unset THEN <<>> ELSE vals[k]]]
        envFiles ==
            { NoEnvFile, UnreadableEnvFile }
              \cup { mkEnvFile(vals) : vals \in
                       [VITE_CLIENT_ID : requiredRaws, CLIENT_SECRET : requiredRaws,
                        APP_NAME : optionalRaws, PORT : optionalRaws,
                        CLIENT_PORT : optionalRaws, NODE_ENV : {dev}] }
        checkEnvFiles ==
            { NoEnvFile, UnreadableEnvFile }
              \cup { mkEnvFile(vals) : vals \in
                       [VITE_CLIENT_ID : {unset, short, ok, placeholder},
                        CLIENT_SECRET : {unset, <<>>, ok, here},
                        APP_NAME : {unset, port}, PORT : {unset, port},
                        CLIENT_PORT : {unset}, NODE_ENV : {dev}] }
        projectFileSets ==
            { RequiredFiles, {} } \cup { RequiredFiles \ {f} : f \in RequiredFiles }
        frameworkFileSets ==
            { { CreateItems[i] : i \in 3 .. 13 }, {} }
        commands == { Prerequisites[i].cmd : i \in DOMAIN Prerequisites }
    IN { [NoToolInput EXCEPT !.tool = "validateEnv", !.envFile = f] : f \in envFiles }
         \cup { [NoToolInput EXCEPT !.tool = "check-env", !.envFile = f, !.present = p,
                                    !.nodeModules = n] :
                  f \in checkEnvFiles, p \in projectFileSets, n \in BOOLEAN }
         \cup { [NoToolInput EXCEPT !.tool = "wizard", !.installed = i] :
                  i \in SUBSET commands }
         \cup { [NoToolInput EXCEPT !.tool = "create", !.existing = x, !.argName = a,
                                    !.yes = y, !.present = p] :
                  x \in SUBSET { Slug(n) : n \in ProjectNames },
                  a \in {<<>>} \cup ProjectNames, y \in BOOLEAN,
                  p \in frameworkFileSets }
         \cup { [NoToolInput EXCEPT !.tool = "createProject", !.existing = x,
                                    !.argName = a, !.dirname = d,
                                    !.template = t] :
                  x \in SUBSET { Slug(n) : n \in ProjectNames },
                  a \in {<<>>} \cup ProjectNames, d \in BOOLEAN,
                  t \in { <<>>, <<"README.md", "index.html">> } }
         \cup { [NoToolInput EXCEPT !.tool = "setup", !.argId = c, !.argSecret = k,
                                    !.argName = a, !.skipInstall = i] :
                  c \in { <<>>, <<"1", "2", "3">>, ok, placeholder },
                  k \in { <<>>, ok, <<"y", "o", "u", "r", "_", "s", "e", "c", "r", "e", "t", "_", "h", "e", "r", "e">> },
                  a \in { <<>>, <<"x">> }, i \in BOOLEAN }

ToolInit ==
    /\ env = [VITE_CLIENT_ID |-> ClientIdValue, CLIENT_SECRET |-> SecretValue,
              NODE_ENV |-> "development", CLIENT_PORT |-> NoPort]
    /\ frameId = NULL
    /\ fnArgs = <<>>
    /\ fnResult = <<>>
    /\ AppIdle
    /\ tin \in ToolInputs
    /\ tpc = "start"
    /\ tans = NoAnswers
    /\ dotenv = NoEnvFile
    /\ written = <<>>
    /\ toolExit = -1
    /\ toolLog = <<>>
    /\ tres = createResult(FALSE, <<"none">>, <<"none">>)

ToolNext ==
    \/ RunValidateEnv /\ UNCHANGED <<srvVars, cliVars>>
    \/ RunCheckEnv /\ UNCHANGED <<srvVars, cliVars>>
    \/ WizardStart /\ UNCHANGED <<srvVars, cliVars>>
    \/ AnswerHasApp /\ UNCHANGED <<srvVars, cliVars>>
    \/ AnswerOpenBrowser /\ UNCHANGED <<srvVars, cliVars>>
    \/ AnswerContinue /\ UNCHANGED <<srvVars, cliVars>>
    \/ AnswerClientId /\ UNCHANGED <<srvVars, cliVars>>
    \/ AnswerClientSecret /\ UNCHANGED <<srvVars, cliVars>>
    \/ AnswerProject /\ UNCHANGED <<srvVars, cliVars>>
    \/ WriteEnvSettles /\ UNCHANGED <<srvVars, cliVars>>
    \/ WriteExampleSettles /\ UNCHANGED <<srvVars, cliVars>>
    \/ WriteConfigSettles /\ UNCHANGED <<srvVars, cliVars>>
    \/ AnswerStartDev /\ UNCHANGED <<srvVars, cliVars>>
    \/ CreateStart /\ UNCHANGED <<srvVars, cliVars>>
    \/ AnswerName /\ UNCHANGED <<srvVars, cliVars>>
    \/ CreateItemSettles /\ UNCHANGED <<srvVars, cliVars>>
    \/ SetupStart /\ UNCHANGED <<srvVars, cliVars>>
    \/ SetupEnvSettles /\ UNCHANGED <<srvVars, cliVars>>
    \/ SetupConfigSettles /\ UNCHANGED <<srvVars, cliVars>>
    \/ LibCreateStart /\ UNCHANGED <<srvVars, cliVars>>
    \/ LibMkdirSettles /\ UNCHANGED <<srvVars, cliVars>>
    \/ LibCopySettles /\ UNCHANGED <<srvVars, cliVars>>
    \/ LibWriteSettles /\ UNCHANGED <<srvVars, cliVars>>

ToolSpec == ToolInit /\ [][ToolNext]_vars

(* ---------------------------------------------------------------------- *)
(* Properties                                                              *)
(* ---------------------------------------------------------------------- *)

\* request r reached the handler of POST /api/token (its body was parsed)
IsTokenReq(r) ==
    /\ reqs[r].st \in {"fetching", "parsing", "done"}
    /\ reqs[r].method = "POST" /\ reqs[r].path = "/api/token" /\ reqs[r].json

IsDone(r) == reqs[r].st = "done"

GenericTokenError == "Internal server error during token exchange"

\* C1: a POST /api/token request whose code is missing or empty is answered
\* with status 400 and {error: 'Authorization code is required'}, and no call
\* to the provider is made for it.
C1_MissingCodeRejected ==
    \A r \in ReqIds :
        (IsTokenReq(r) /\ reqs[r].code \in {UNDEF, ""}) =>
            /\ IsDone(r)
            /\ reqs[r].resp.status = 400
            /\ reqs[r].resp.body = { <<"error", "Authorization code is required">> }
            /\ reqs[r].calls = 0
            /\ \A o \in outbound : o.req # r

C1_Witness ==
    \E r \in ReqIds :
        /\ IsTokenReq(r) /\ reqs[r].code = "" /\ IsDone(r)
        /\ reqs[r].resp.status = 400

\* C2 as stated: whenever the provider answers a token request with a success
\* status, the response is 200 with the single field access_token.
C2_Original ==
    \A r \in ReqIds :
        (IsTokenReq(r) /\ IsDone(r) /\ reqs[r].answer.kind = "ok") =>
            /\ reqs[r].resp.status = 200
            /\ Fields(reqs[r].resp.body) = {"access_token"}

\* the provider's answer to r has a success status and a body that parses to
\* an object with an access_token
HasProviderToken(r) ==
    /\ reqs[r].answer.kind = "ok"
    /\ reqs[r].answer.parseable
    /\ "access_token" \in Fields(reqs[r].answer.body)

\* C2 (amended): when the provider answers with a success status and a body
\* that parses to an object with an access_token, the response is 200 and its
\* body has exactly one field, access_token, equal to the provider's; none of
\* refresh_token, scope, token_type, expires_in is returned.
C2_OnlyAccessToken ==
    \A r \in ReqIds :
        (IsTokenReq(r) /\ IsDone(r) /\ HasProviderToken(r)) =>
            /\ reqs[r].resp.status = 200
            /\ Fields(reqs[r].resp.body) = {"access_token"}
            /\ Get(reqs[r].resp.body, "access_token")
                 = Get(reqs[r].answer.body, "access_token")

C2_Witness ==
    \E r \in ReqIds :
        /\ IsTokenReq(r) /\ IsDone(r) /\ HasProviderToken(r)
        /\ "refresh_token" \in Fields(reqs[r].answer.body)
        /\ reqs[r].resp.body = { <<"access_token", "tok_2">> }

\* C3: when the provider answers with a non-success status s, the response
\* has status s and no access_token field.
C3_UpstreamStatusForwarded ==
    \A r \in ReqIds :
        (IsTokenReq(r) /\ IsDone(r) /\ reqs[r].answer.kind = "err") =>
            /\ reqs[r].resp.status = reqs[r].answer.status
            /\ "access_token" \notin Fields(reqs[r].resp.body)

C3_Witness ==
    \E r \in ReqIds :
        /\ IsTokenReq(r) /\ IsDone(r) /\ reqs[r].answer.kind = "err"
        /\ reqs[r].answer.status = 401 /\ reqs[r].resp.status = 401

\* C4: a non-success provider answer whose body cannot be parsed still gives
\* the provider's status with an empty object as details, never the response
\* of the catch block.
C4_UnparseableErrorBody ==
    \A r \in ReqIds :
        (IsTokenReq(r) /\ IsDone(r) /\ reqs[r].answer.kind = "err"
           /\ ~reqs[r].answer.parseable) =>
            /\ reqs[r].resp.status = reqs[r].answer.status
            /\ Get(reqs[r].resp.body, "details") = "{}"
            /\ Get(reqs[r].resp.body, "error") = "Failed to exchange token with Discord"
            /\ reqs[r].resp.body # { <<"error", GenericTokenError>> }

C4_Witness ==
    \E r \in ReqIds :
        /\ IsTokenReq(r) /\ IsDone(r) /\ reqs[r].answer.kind = "err"
        /\ ~reqs[r].answer.parseable /\ reqs[r].answer.status = 500
        /\ Get(reqs[r].resp.body, "details") = "{}"

\* C5 as stated: when the outbound call throws the response is 500, with a
\* generic message in production and the raw exception message otherwise.
C5_Original ==
    \A r \in ReqIds :
        (IsTokenReq(r) /\ IsDone(r) /\ reqs[r].answer.kind = "throw") =>
            /\ reqs[r].resp.status = 500
            /\ config.isProduction =>
                 Get(reqs[r].resp.body, "error") = GenericTokenError
            /\ ~config.isProduction =>
                 Get(reqs[r].resp.body, "error") = reqs[r].answer.msg

\* C5 (amended): when the outbound call throws the response is 500 and its
\* body is {error: 'Internal server error during token exchange'} in
\* production and in non-production mode alike; the exception message is
\* never returned.
C5_TransportFailureGeneric ==
    \A r \in ReqIds :
        (IsTokenReq(r) /\ IsDone(r) /\ reqs[r].answer.kind = "throw") =>
            /\ reqs[r].resp.status = 500
            /\ reqs[r].resp.body = { <<"error", GenericTokenError>> }
            /\ \A p \in reqs[r].resp.body : p[2] # reqs[r].answer.msg

C5_Witness ==
    \E r \in ReqIds :
        /\ IsTokenReq(r) /\ IsDone(r) /\ reqs[r].answer.kind = "throw"
        /\ ~config.isProduction
        /\ reqs[r].resp.status = 500

\* no response body holds the client secret
SecretNotInResponses ==
    \A r \in ReqIds : \A p \in reqs[r].resp.body :
        ~(Truthy(config.clientSecret) /\ p[2] = config.clientSecret)

\* the secret leaves the process only in provider calls of token requests
SecretOnlyInTokenExchange ==
    \A o \in outbound :
        /\ o.url = "https://discord.com/api/oauth2/token"
        /\ IsTokenReq(o.req)
        /\ Get(o.body, "client_secret") = config.clientSecret

\* C6: the client secret is in no response body of any endpoint, it is sent
\* only in the provider call of the token exchange, and once the server
\* listens no step changes the configuration.
C6_SecretConfined ==
    /\ [](SecretNotInResponses /\ SecretOnlyInTokenExchange)
    /\ [][srv = "listening" => config' = config]_vars

C6_Witness ==
    /\ \E r \in ReqIds : IsDone(r) /\ reqs[r].path = "/api/config"
                          /\ Get(reqs[r].resp.body, "clientId") = ClientIdValue
    /\ \E o \in outbound : Get(o.body, "client_secret") = SecretValue

\* number of times operation op was invoked
Count(op) == Cardinality({ i \in DOMAIN steps : steps[i] = op })

AuthStepSet == { AuthSteps[i] : i \in DOMAIN AuthSteps }

\* C7: the steps are invoked in the order ready, authorize, POST /api/token,
\* authenticate, each only after the one before it resolved, and at most one
\* operation is in flight.
C7_StrictOrder ==
    /\ \A i \in DOMAIN steps :
          /\ i <= 4 => steps[i] = AuthSteps[i]
          /\ i > 4 => steps[i] \notin AuthStepSet
          /\ (i > 1 /\ i <= 4) => AuthSteps[i - 1] \in completed
    /\ Cardinality(pending) <= 1
    /\ pending \subseteq { steps[i] : i \in DOMAIN steps }

C7_Witness ==
    /\ cpc = "done"
    /\ SubSeq(steps, 1, 4) = AuthSteps
    /\ "authenticate" \in completed

\* position of an authentication step in the sequence
StepIndex(s) == CHOOSE i \in DOMAIN AuthSteps : AuthSteps[i] = s

\* the token endpoint answered the client with a non-success status
TokenRefused == reqs[0].st = "done" /\ ~IsOk(reqs[0].resp.status)

\* C8: once a step of the authentication sequence failed, no later step is
\* invoked and the content panel is not shown.
C8_FailureShortCircuits ==
    /\ failedStep \in AuthStepSet =>
          /\ Len(steps) = StepIndex(failedStep)
          /\ pending = {}
          /\ ~content
    /\ TokenRefused => ("authenticate" \notin { steps[i] : i \in DOMAIN steps }
                          /\ ~content)
    /\ (cpc = "failed" /\ TokenRefused) => failedStep = "token"

C8_Witness ==
    /\ cpc = "failed" /\ failedStep = "token" /\ TokenRefused
    /\ steps = <<"ready", "authorize", "token">>
    /\ ~content

\* C9: every step of the authentication sequence is invoked at most once per
\* session and the server makes at most one provider call per token request.
C9_NoRetry ==
    /\ \A s \in AuthStepSet : Count(s) <= 1
    /\ \A r \in ReqIds : reqs[r].calls <= 1
    /\ \A r \in ReqIds : IsDone(r) /\ reqs[r].answer.kind # "none" => reqs[r].calls = 1

C9_Witness ==
    /\ cpc = "failed" /\ failedStep = "token"
    /\ IsDone(0) /\ reqs[0].answer.kind = "throw" /\ reqs[0].calls = 1

\* main() is running or has run
MainStarted == cpc \notin {"load", "halted"}

ErrorShown == ~loading /\ error /\ errorMessage # ""

\* C10: a failure of a start-up step leads to the error panel with a
\* non-empty message and no loading indicator; when every suspended
\* operation settles, start-up ends with the loading indicator hidden and the
\* content or the error panel shown.
C10_FailureVisible ==
    /\ [](failedStep # "none" => ErrorShown)
    /\ (TokenRefused ~> ErrorShown)
    /\ (MainStarted ~> (~loading /\ (content \/ error)))
    /\ (MainStarted ~> (cpc \in {"done", "failed"}))

C10_Witness ==
    /\ cpc = "failed" /\ failedStep = "ready"
    /\ ~loading /\ error /\ ~content
    /\ errorMessage = FallbackMessage

\* C11: when content is shown, the session's access token is the
\* access_token of the token endpoint's response, authenticate was called
\* with that token, and the current user is the profile authenticate returned
\* (none is captured when authenticate resolved without a result).
C11_SessionFromHandshake ==
    content =>
        /\ reqs[0].st = "done" /\ reqs[0].resp.status = 200
        /\ accessToken = Get(reqs[0].resp.body, "access_token")
        /\ authenticateArg = accessToken
        /\ authResult.kind \in {"resolve", "null"}
        /\ authResult.kind = "resolve" => currentUser = authResult.user
        /\ authResult.kind = "null" => currentUser = NoUser

C11_Witness ==
    /\ content /\ cpc = "done"
    /\ accessToken = "tok_2" /\ authenticateArg = "tok_2"
    /\ currentUser \in Users

\* the value of a decimal string of at most 9 digits
RECURSIVE DecValue(_)
DecValue(ds) ==
    IF ds = <<>> THEN 0
    ELSE DecValue(SubSeq(ds, 1, Len(ds) - 1)) * 10 + DigitVal(ds[Len(ds)])

\* the exact value of an id of at most 18 digits, modulo 5: the id is
\* hi * 10^9 + lo with lo its last 9 digits
ExactMod5(ds) ==
    LET n == Len(ds)
        lo == DecValue(SubSeq(ds, IF n > 9 THEN n - 8 ELSE 1, n))
        hi == IF n > 9 THEN DecValue(SubSeq(ds, 1, n - 9)) ELSE 0
    IN (((hi % 5) * (1000000000 % 5)) + (lo % 5)) % 5

\* a call of getUserAvatarUrl has returned
AvatarCallDone == fnArgs # <<>> /\ fnResult # <<>> /\ fnArgs.fn = "getUserAvatarUrl"

\* C12: for a null avatar hash the URL is .../embed/avatars/{index}.png with
\* index the exact value of userId mod 5, in 0..4, also for ids above 2^53.
C12_DefaultAvatarIndex ==
    (AvatarCallDone /\ fnArgs.hash = NULL) =>
        /\ ExactMod5(fnArgs.id) \in 0 .. 4
        /\ fnResult = << "https://cdn.discordapp.com/embed/avatars/",
                         ToString(ExactMod5(fnArgs.id)), ".png" >>

C12_Witness ==
    /\ AvatarCallDone /\ fnArgs.hash = NULL
    /\ Len(fnArgs.id) = 17 /\ fnArgs.id[1] = "8"
    /\ fnArgs.id[17] = "9"
    /\ fnResult[2] = "4"

\* the URL has a size query parameter
HasSizeParam(url) == \E i \in DOMAIN url : url[i] = "?size="

\* C13 as stated: with a null hash the avatar URL has no size parameter; with
\* every non-null hash it is .../avatars/{id}/{hash}.webp?size={size}, size
\* being 128 when the caller gives none and the caller's value otherwise.
C13_Original ==
    AvatarCallDone =>
        /\ fnArgs.hash = NULL => ~HasSizeParam(fnResult)
        /\ fnArgs.hash # NULL =>
              fnResult = << "https://cdn.discordapp.com/avatars/",
                            IdString(fnArgs.id), "/", fnArgs.hash, ".webp", "?size=",
                            IF fnArgs.size.given THEN ToString(fnArgs.size.value)
                                                 ELSE "128" >>

\* C13: with a null hash the avatar URL has no size parameter; with every
\* non-null hash other than the empty string it is
\* .../avatars/{id}/{hash}.webp?size={size}, size being 128 when the caller
\* gives none and the caller's value otherwise; the empty string is treated
\* like null.
C13_AvatarUrlSize ==
    AvatarCallDone =>
        /\ fnArgs.hash = NULL => ~HasSizeParam(fnResult)
        /\ fnArgs.hash = "" =>
              fnResult = << "https://cdn.discordapp.com/embed/avatars/",
                            ToString(ExactMod5(fnArgs.id)), ".png" >>
        /\ fnArgs.hash \notin {NULL, ""} =>
              fnResult = << "https://cdn.discordapp.com/avatars/",
                            IdString(fnArgs.id), "/", fnArgs.hash, ".webp", "?size=",
                            IF fnArgs.size.given THEN ToString(fnArgs.size.value)
                                                 ELSE "128" >>

C13_Witness ==
    /\ AvatarCallDone /\ fnArgs.hash = "abc123" /\ ~fnArgs.size.given
    /\ fnResult[7] = "128" /\ fnResult[2] = "42"

\* the operations invoked so far
Invoked == { steps[i] : i \in DOMAIN steps }

\* C14: a guild image is set only when getGuildInfo returned a guild with an
\* icon hash, and it is then url(.../icons/{guildId}/{iconHash}.webp?size=128);
\* for a guild without an icon hash no image is set and the name is shown.
C14_GuildIconOnlyWithHash ==
    /\ guildImage # <<>> =>
          /\ guildResult.ret = "guild"
          /\ guildResult.guild.icon # NULL
          /\ guildImage = << "url(", "https://cdn.discordapp.com/icons/",
                             IdString(guildResult.guild.id), "/",
                             guildResult.guild.icon, ".webp", "?size=", "128", ")" >>
    /\ (guildResult.ret = "guild" /\ guildResult.guild.icon = NULL) =>
          /\ guildImage = <<>>
          /\ appTitle = guildResult.guild.name
    /\ guildResult.ret = "guild" => guildResult.guild.id = sdk.guildId

C14_Witness ==
    /\ cpc = "done"
    /\ guildResult = [ret |-> "guild", guild |-> GuildWithoutIcon]
    /\ guildImage = <<>>
    /\ appTitle = "My Server"

\* getChannel was invoked and rejected
ChannelRejected ==
    "getChannel" \in Invoked /\ "getChannel" \notin pending
      /\ "getChannel" \notin completed

\* C20: without a channel id getVoiceChannelInfo returns null and getChannel
\* is never invoked; when getChannel rejects it returns null and the failure
\* does not reach its caller: main() at start-up, the click handlers of the
\* two buttons, a module that imports the function.
C20_VoiceChannelInfoNeverThrows ==
    /\ \A i \in DOMAIN channelCalls :
          LET c == channelCalls[i]
          IN /\ sdk.channelId = NULL =>
                   /\ ~c.getChannel /\ c.st = "done" /\ c.settled = "none"
                   /\ c.ret = IF c.caller = "btn-participants"
                                THEN NoChannelResult ELSE NullChannel
             /\ c.settled = "reject" =>
                   /\ c.st = "done" /\ c.ret = NullChannel
             /\ c.ret.ret = "channel" => c.getChannel /\ c.settled = "resolve"
    /\ \A p \in output.obj :
          p[1] = "error" => p[2] = "Not in a voice channel" /\ sdk.channelId = NULL
    /\ (sdk.constructed /\ sdk.channelId = NULL) =>
          /\ "getChannel" \notin Invoked
          /\ channelResult.ret \in {"none", "null"}
          /\ cpc = "done" => channelResult.ret = "null"
    /\ ChannelRejected =>
          /\ channelResult.ret = "null"
          /\ failedStep = "none" /\ cpc # "failed" /\ ~error
    /\ channelResult.ret = "channel" => "getChannel" \in completed

C20_Witness ==
    /\ ChannelRejected /\ channelResult = NullChannel
    /\ cpc = "done" /\ content /\ ~error
    /\ \E i \in DOMAIN channelCalls :
          /\ channelCalls[i].caller = "btn-voice-info"
          /\ channelCalls[i].settled = "reject"
          /\ channelCalls[i].ret = NullChannel
    /\ output = [shown |-> TRUE, null |-> TRUE, obj |-> {}]

\* the server handled, or is handling, a request
Handling == \E r \in ReqIds : reqs[r].st # "free"

\* C15: the server listens and handles requests only if the client id and
\* the client secret are both present and non-empty; otherwise the process
\* exits with a non-zero status and no request is ever handled.
C15_StartsOnlyWithCredentials ==
    /\ (srv = "listening" \/ Handling) =>
          /\ env.VITE_CLIENT_ID \notin {UNDEF, ""}
          /\ env.CLIENT_SECRET \notin {UNDEF, ""}
          /\ exitCode = -1
    /\ (srv # "boot" /\ (env.VITE_CLIENT_ID \in {UNDEF, ""}
                           \/ env.CLIENT_SECRET \in {UNDEF, ""})) =>
          /\ srv = "exited"
          /\ exitCode \notin {-1, 0}
          /\ ~Handling
          /\ outbound = {}
          /\ corsOptions = [origin |-> <<>>, credentials |-> FALSE]

C15_Witness ==
    /\ srv = "exited" /\ exitCode = 1
    /\ env.VITE_CLIENT_ID = ClientIdValue
    /\ env.CLIENT_SECRET = ""

\* the registered API routes
Registered(method, path) ==
    \/ method \in {"GET", "HEAD"} /\ path \in {"/api/health", "/api/config"}
    \/ method = "POST" /\ path = "/api/token"

\* request r went through the body parser and the cors middleware to the
\* routes, and none of the API routes matched it
Unmatched(r) ==
    /\ IsDone(r) /\ reqs[r].json
    /\ ~(reqs[r].method = "OPTIONS" /\ corsOptions.origin # <<>>)
    /\ ~Registered(reqs[r].method, reqs[r].path)

\* the path is under /api/, and the client's build has no file of that path
ApiPathNoAsset(r) ==
    /\ reqs[r].path \in {"/api/health", "/api/config", "/api/token", "/api/other"}
    /\ reqs[r].disk = <<>> \/ reqs[r].disk[1] = "missing"

\* C16: a request for a path under /api/ that matches none of the registered
\* routes gets the fixed not-found response, status 404 with
\* {error: 'Not found'} (without the body for HEAD), whatever its method, in
\* production as well as in non-production mode.
C16_UnmatchedApiNotFound ==
    \A r \in ReqIds :
        (Unmatched(r) /\ ApiPathNoAsset(r)) =>
            reqs[r].resp = Sent(reqs[r].method,
                                [status |-> 404,
                                 body |-> { <<"error", "Not found">> }])

\* an exception was raised inside the token handler of request r: the
\* outbound call threw, or the body of a success answer could not be parsed
RaisedInTokenHandler(r) ==
    /\ IsDone(r) /\ reqs[r].json
    /\ \/ reqs[r].answer.kind = "throw"
       \/ reqs[r].answer.kind = "ok" /\ ~reqs[r].answer.parseable

\* the JSON body parser raised an exception for request r
RaisedInBodyParser(r) == IsDone(r) /\ ~reqs[r].json

\* res.sendFile found no index.html for request r and passed the error on
RaisedInSendFile(r) ==
    IsDone(r) /\ Len(reqs[r].disk) = 2 /\ reqs[r].disk[2] = "missing"

\* the message of the exception raised for request r
RawMessage(r) ==
    IF reqs[r].answer.kind = "throw" THEN reqs[r].answer.msg ELSE ParseErrMessage

\* C17 as stated: every exception raised in a handler or a middleware is
\* answered with 500 and 'Internal server error' in production, the raw
\* message otherwise.
C17_Original ==
    \A r \in ReqIds :
        (RaisedInBodyParser(r) \/ RaisedInTokenHandler(r)) =>
            reqs[r].resp =
               [status |-> 500,
                body |-> { <<"error", IF env.NODE_ENV = "production"
                                        THEN "Internal server error"
                                        ELSE RawMessage(r)>> }]

\* C17: an exception of the JSON body parser, or of the SPA fallback's
\* sendFile (production only), ends in the catch-all handler
\* (500; 'Internal server error' in production, the raw message otherwise);
\* an exception raised inside the token handler is answered by the handler's
\* own catch with 500 and 'Internal server error during token exchange' in
\* both modes.
C17_ExceptionsAnswered ==
    \A r \in ReqIds :
        /\ RaisedInBodyParser(r) =>
              reqs[r].resp =
                 [status |-> 500,
                  body |-> { <<"error", IF env.NODE_ENV = "production"
                                          THEN "Internal server error"
                                          ELSE ParseErrMessage>> }]
        /\ RaisedInSendFile(r) =>
              /\ env.NODE_ENV = "production"
              /\ reqs[r].resp =
                    Sent(reqs[r].method,
                         [status |-> 500,
                          body |-> { <<"error", "Internal server error">> }])
        /\ RaisedInTokenHandler(r) =>
              reqs[r].resp =
                 [status |-> 500,
                  body |-> { <<"error",
                               "Internal server error during token exchange">> }]

C17_Witness ==
    \E r \in ReqIds :
        /\ RaisedInBodyParser(r)
        /\ env.NODE_ENV = "production"
        /\ reqs[r].resp = [status |-> 500,
                           body |-> { <<"error", "Internal server error">> }]

\* the characters of a port are all digits, the first not a zero
Canonical(cs) == cs # <<>> /\ cs[1] # "0" /\ DigitPrefix(cs) = cs

\* C18: once the server listens, the cors options depend on the mode only:
\* outside production the origin is http://localhost:{clientPort}, the port
\* being 3000 when CLIENT_PORT is not set, with credentials; in production
\* no origin is configured.
C18_CorsByMode ==
    srv = "listening" =>
        /\ corsOptions.credentials
        /\ IF env.NODE_ENV = "production"
             THEN corsOptions.origin = <<>>
             ELSE /\ Len(corsOptions.origin) = 2
                  /\ corsOptions.origin[1] = "http://localhost:"
                  /\ corsOptions.origin[2] = NumString(config.clientPort)
                  /\ env.CLIENT_PORT = NoPort => corsOptions.origin[2] = "3000"
                  /\ Canonical(env.CLIENT_PORT) =>
                        corsOptions.origin[2] = IdString(env.CLIENT_PORT)

C18_Witness ==
    /\ srv = "listening"
    /\ env.NODE_ENV = "test"
    /\ env.CLIENT_PORT = <<"5", "1", "7", "3">>
    /\ corsOptions = [origin |-> <<"http://localhost:", "5173">>,
                      credentials |-> TRUE]

\* the token request of slot r was answered
TokenDone(r) == IsDone(r) /\ IsTokenReq(r)

\* the response of slot r is made of its own code and its own answer
OwnResponse(r) ==
    LET q == reqs[r]
        a == q.answer
        b == q.resp.body
    IN /\ "access_token" \in Fields(b) =>
             /\ a.kind = "ok" /\ a.parseable
             /\ Get(b, "access_token") = Get(a.body, "access_token")
       /\ "details" \in Fields(b) =>
             /\ a.kind = "err"
             /\ q.resp.status = a.status
             /\ Get(b, "details") = IF a.parseable THEN Get(a.body, "payload")
                                                   ELSE "{}"
       /\ q.resp.status = 400 /\ "details" \notin Fields(b) <=>
             q.code \in {UNDEF, ""}
       /\ q.code \in {UNDEF, ""} => a = NoAnswer
       /\ \A o \in outbound : o.req = r => Get(o.body, "code") = q.code

\* two answered token requests with the same code and the same answer of
\* the provider have the same response
SameInputsSameResponse ==
    \A r, k \in ReqIds :
        (TokenDone(r) /\ TokenDone(k) /\ reqs[r].code = reqs[k].code
           /\ reqs[r].answer = reqs[k].answer) => reqs[r].resp = reqs[k].resp

\* a step changes at most one request, and never the configuration of a
\* listening server
OneRequestPerStep ==
    /\ \A r, k \in ReqIds :
          (reqs'[r] # reqs[r] /\ reqs'[k] # reqs[k]) => r = k
    /\ srv = "listening" =>
          srv' = srv /\ config' = config /\ corsOptions' = corsOptions
    /\ \A r \in ReqIds : IsDone(r) => reqs'[r] = reqs[r]

\* C19: whatever the interleaving of the token requests in flight, the
\* response of each is made of its own code and the provider's answer to
\* its own call, and no step of one request changes another request or the
\* configuration.
C19_NoCrossTalk ==
    /\ [](\A r \in ReqIds : TokenDone(r) => OwnResponse(r))
    /\ []SameInputsSameResponse
    /\ [][OneRequestPerStep]_vars

C19_Witness ==
    /\ reqs[0].st = "parsing"
    /\ Get(reqs[0].answer.body, "access_token") = "tok_1"
    /\ TokenDone(1)
    /\ reqs[1].resp = [status |-> 200, body |-> { <<"access_token", "tok_2">> }]

\* C22: the content panel and the error panel are never both visible.
C22_ContentXorError == ~(content /\ error)

\* C23 as stated: the access token is set only after the token exchange
\* returned a success status, the current user only with an access token and
\* a resolved authenticate, and the content panel is visible only with a
\* current user.
C23_Original ==
    /\ accessToken # NULL =>
          reqs[0].st = "done" /\ IsOk(reqs[0].resp.status)
    /\ currentUser # NoUser =>
          accessToken # NULL /\ "authenticate" \in completed
    /\ content => currentUser # NoUser

\* C23: the access token is assigned only after the token exchange returned
\* a success status, the current user is set only with an assigned token and
\* an authenticate that resolved with a result, and the content panel is
\* visible only after authenticate resolved; the current user is then the
\* returned profile, or none when authenticate resolved without a result.
C23_SessionStateImplications ==
    /\ accessToken # NULL =>
          reqs[0].st = "done" /\ IsOk(reqs[0].resp.status)
    /\ currentUser # NoUser =>
          /\ accessToken # NULL
          /\ "authenticate" \in completed
          /\ authResult.kind = "resolve"
    /\ content =>
          /\ "authenticate" \in completed
          /\ accessToken # NULL
          /\ currentUser = NoUser <=> authResult.kind = "null"

C23_Witness ==
    /\ content /\ cpc = "done"
    /\ authResult.kind = "null" /\ currentUser = NoUser
    /\ accessToken \in Tokens

\* the page was opened outside Discord or without a configured client id
NotLaunchable == frameId \in {NULL, ""} \/ env.VITE_CLIENT_ID \in {UNDEF, ""}

\* C24: without a frame_id or without a client id the client never
\* constructs the SDK, never starts the authentication sequence and never
\* sends a request to /api/token.
C24_GuardsStopStartup ==
    NotLaunchable =>
        /\ ~sdk.constructed
        /\ steps = <<>> /\ pending = {}
        /\ reqs[0].st = "free"
        /\ \A o \in outbound : o.req # 0
        /\ cpc \in {"load", "halted"}
        /\ accessToken = NULL /\ currentUser = NoUser /\ ~content
        /\ cpc = "halted" => page \in {"notInDiscord", "configError"}

C24_Witness ==
    /\ cpc = "halted" /\ page = "configError"
    /\ frameId = "frame_1" /\ env.VITE_CLIENT_ID = UNDEF
    /\ ~sdk.constructed /\ steps = <<>>

\* the guild list request was made and has ended
GuildsSettled == "guilds" \in Invoked /\ "guilds" \notin pending

\* the guilds of a list whose id is the SDK's guild id
Matching(list) == { i \in DOMAIN list : list[i].id = sdk.guildId }

\* C25: getGuildInfo makes no request and returns null without an access
\* token or a guild id; otherwise it returns the first guild of the fetched
\* list whose id is the SDK's guild id, or null when none matches, the fetch
\* fails or the status is not a success; its failure never reaches its
\* caller, main() at start-up or a module that imports the function.
C25_GuildInfoNeverThrows ==
    /\ \A i \in DOMAIN guildCalls :
          LET c == guildCalls[i]
          IN /\ (c.bearer \in {NULL, UNDEF, ""} \/ sdk.guildId = NoId) =>
                   c.st = "done" /\ c.fetch.kind = "none" /\ c.ret = NullGuild
             /\ (c.st # "done" \/ c.fetch.kind # "none") =>
                   c.bearer \in Tokens /\ sdk.guildId # NoId
             /\ c.st # "done" => c.ret.ret = "none"
             /\ (c.st = "done" /\ c.fetch.kind # "none") =>
                   IF c.fetch.kind = "list" /\ Matching(c.fetch.list) # {}
                     THEN /\ c.ret.ret = "guild"
                          /\ \E k \in Matching(c.fetch.list) :
                                /\ c.ret.guild = c.fetch.list[k]
                                /\ \A j \in Matching(c.fetch.list) : k <= j
                     ELSE c.ret = NullGuild
    /\ (sdk.constructed /\ (accessToken \in {NULL, UNDEF, ""} \/ sdk.guildId = NoId)) =>
          /\ "guilds" \notin Invoked
          /\ guildFetch = [kind |-> "none", list |-> <<>>]
          /\ guildResult.ret \in {"none", "null"}
          /\ cpc = "done" => guildResult.ret = "null"
    /\ "guilds" \in Invoked => accessToken \in Tokens /\ sdk.guildId # NoId
    /\ GuildsSettled =>
          /\ cpc = "done" /\ failedStep = "none" /\ ~error
          /\ IF guildFetch.kind = "list" /\ Matching(guildFetch.list) # {}
               THEN /\ guildResult.ret = "guild"
                    /\ \E i \in Matching(guildFetch.list) :
                          /\ guildResult.guild = guildFetch.list[i]
                          /\ \A j \in Matching(guildFetch.list) : i <= j
               ELSE guildResult.ret = "null"

C25_Witness ==
    /\ GuildsSettled
    /\ guildFetch.kind = "list" /\ guildFetch.list = <<OtherGuild, GuildWithIcon>>
    /\ guildResult = [ret |-> "guild", guild |-> GuildWithIcon]
    /\ \E i \in DOMAIN guildCalls :
          /\ guildCalls[i].st = "done" /\ guildCalls[i].bearer \in Tokens
          /\ guildCalls[i].fetch.kind = "reject"
          /\ guildCalls[i].ret = NullGuild

\* validateEnv returned
Validated == tin.tool = "validateEnv" /\ tpc = "done"

\* the messages validateEnv has for one required variable
MessagesAbout(r) ==
    { "Missing required variable: " \o r.key \o " (" \o r.desc \o ")",
      r.key \o " appears to be a placeholder value",
      r.key \o " appears to be invalid (too short)" }

\* C27: validateEnv's result is valid exactly when it lists no error; a
\* missing or unparseable .env file gives valid = false with exactly one error
\* and no warning; every error is about one required variable and each
\* required variable has at most one.
C27_ValidIffNoErrors ==
    Validated =>
      /\ tres.valid <=> tres.errors = <<>>
      /\ tin.envFile.state # "file" =>
            ~tres.valid /\ Len(tres.errors) = 1 /\ tres.warnings = <<>>
      /\ tin.envFile.state = "file" =>
            /\ \A i \in DOMAIN tres.errors :
                  \E j \in DOMAIN RequiredVars : tres.errors[i] \in MessagesAbout(RequiredVars[j])
            /\ \A j \in DOMAIN RequiredVars :
                  Cardinality({ i \in DOMAIN tres.errors :
                                  tres.errors[i] \in MessagesAbout(RequiredVars[j]) }) <= 1

C27_Witness ==
    /\ Validated
    /\ tin.envFile.state = "file"
    /\ tin.envFile.raw["VITE_CLIENT_ID"] = <<"y", "o", "u", "r", "_">>
    /\ ~tres.valid /\ Len(tres.errors) = 2 /\ Len(tres.warnings) = 3

\* check-env ended
CheckEnvRan == tin.tool = "check-env" /\ tpc \in {"done", "exited"}

\* what check-env reads as the value of a variable of the .env file
ValueIn(f, k) == IF k \in f.keys THEN DotenvValue(f.raw[k]) ELSE <<>>

\* an error of check-env: no parsed .env file, a required variable unset or
\* holding a placeholder, or a required project file missing
ErrorRecorded ==
    \/ tin.envFile.state \in {"missing", "unreadable"}
    \/ \E k \in {"VITE_CLIENT_ID", "CLIENT_SECRET"} :
          \/ ValueIn(tin.envFile, k) = <<>>
          \/ Includes(ValueIn(tin.envFile, k), <<"y", "o", "u", "r", "_">>)
          \/ Includes(ValueIn(tin.envFile, k), <<"_", "h", "e", "r", "e">>)
    \/ \E f \in RequiredFiles : f \notin tin.present

\* a warning of check-env: an optional variable unset or node_modules missing
WarningRecorded ==
    \/ /\ tin.envFile.state = "file"
       /\ \E k \in {"APP_NAME", "PORT"} : ValueIn(tin.envFile, k) = <<>>
    \/ ~tin.nodeModules

\* C28: check-env exits with status 1 exactly when it recorded an error;
\* warnings alone never make the exit status non-zero.
C28_ExitOneIffErrors ==
    CheckEnvRan =>
      /\ toolExit = (IF ErrorRecorded THEN 1 ELSE 0)
      /\ tpc = "exited" <=> ErrorRecorded
      /\ tres.valid <=> ~ErrorRecorded
      /\ (tres.warnings # <<>>) <=> WarningRecorded

C28_Witness ==
    /\ CheckEnvRan
    /\ WarningRecorded /\ ~ErrorRecorded
    /\ ~tin.nodeModules /\ "APP_NAME" \notin tin.envFile.keys
    /\ toolExit = 0

\* the wizard asked a question
Asked ==
    \E i \in DOMAIN toolLog :
       toolLog[i] \in {"ask hasDiscordApp", "ask openBrowser", "ask continue",
                       "ask clientId", "ask clientSecret", "ask project",
                       "ask startDev"}

\* C29: when Node.js or npm is not found the wizard exits with status 1
\* before it asks a question or writes a file; a missing Git or Cloudflared
\* never stops it.
C29_RequiredPrerequisites ==
    (tin.tool = "wizard" /\ tpc # "start") =>
      /\ ({"node", "npm"} \ tin.installed # {}) =>
            /\ tpc = "exited" /\ toolExit = 1
            /\ ~Asked
            /\ written = <<>> /\ dotenv = NoEnvFile
      /\ ({"node", "npm"} \subseteq tin.installed) =>
            /\ Asked
            /\ toolLog[2] = "ask hasDiscordApp"

C29_Witness ==
    /\ tin.tool = "wizard"
    /\ tin.installed = {"node", "git", "cloudflared"}
    /\ tpc = "exited" /\ toolExit = 1 /\ toolLog = <<"prerequisites">>

\* the stages of the wizard in the documented order
StageOrder ==
    << "prerequisites", "ask hasDiscordApp", "guidance", "ask clientId",
       "ask clientSecret", "ask project", "project", "write .env",
       "write .env.example", "write miniapp.config.json", "npm install",
       "ask startDev", "spawn npm run dev" >>

\* where the wizard's log has entry l (0: nowhere)
Pos(l) ==
    IF \E i \in DOMAIN toolLog : toolLog[i] = l
      THEN CHOOSE i \in DOMAIN toolLog : toolLog[i] = l
      ELSE 0

\* C21: the wizard runs its stages in the documented order: prerequisite
\* check, Discord application guidance, credential entry, project
\* configuration, file generation, optional start of the dev server. The
\* .env file is written only after a client id and a client secret that
\* passed the input validation were collected, and the dev server is spawned
\* only after the project files were written, npm install succeeded and the
\* user confirmed.
C21_WizardStageOrder ==
    tin.tool = "wizard" =>
      /\ \A i, j \in DOMAIN toolLog : toolLog[i] = toolLog[j] => i = j
      /\ \A a, b \in DOMAIN StageOrder :
            (a < b /\ Pos(StageOrder[b]) # 0) =>
               /\ Pos(StageOrder[a]) < Pos(StageOrder[b])
               /\ StageOrder[a] # "guidance" => Pos(StageOrder[a]) # 0
      /\ dotenv # NoEnvFile =>
            /\ Len(tans.clientId) >= 10 /\ Len(tans.clientSecret) >= 10
            /\ dotenv.raw["VITE_CLIENT_ID"] = tans.clientId
            /\ dotenv.raw["CLIENT_SECRET"] = tans.clientSecret
            /\ written[1] = ".env"
      /\ dotenv = NoEnvFile => written = <<>>
      /\ Pos("spawn npm run dev") # 0 =>
            /\ written = <<".env", ".env.example", "miniapp.config.json">>
            /\ Pos("npm install failed") = 0
            /\ toolExit = -1

C21_Witness ==
    /\ tin.tool = "wizard" /\ tpc = "done"
    /\ Pos("guidance") # 0 /\ Pos("open browser") # 0
    /\ tans.retried
    /\ toolLog[Len(toolLog)] = "spawn npm run dev"

\* the create command checked its target path and the path exists
TargetExists ==
    /\ tin.tool = "create"
    /\ Pos("access") # 0
    /\ Slug(tans.appName) \in tin.existing

\* C26: when the target path of the create command exists the command exits
\* with status 1 before it makes a directory or writes a file.
C26_ExistingTargetUntouched ==
    /\ TargetExists => tpc = "exited" /\ toolExit = 1 /\ written = <<>> /\ tans.item = 0
    /\ (tin.tool = "create" /\ written # <<>>) => Slug(tans.appName) \notin tin.existing

C26_Witness ==
    /\ TargetExists
    /\ tin.argName = <<>> /\ ~tin.yes
    /\ tans.appName = <<"M", "y", " ", " ", "A", "p", "p">>
    /\ tin.existing = {<<"m", "y", "-", "a", "p", "p">>}
    /\ tpc = "exited"

\* C30: every .env file the wizard writes is accepted by validateEnv: for
\* every client id and client secret that the wizard's prompts accept,
\* validateEnv on the written file returns valid = true with no error and no
\* warning.
C30_WizardEnvAccepted ==
    (tin.tool = "wizard" /\ dotenv # NoEnvFile) =>
       validateEnv(dotenv) = createResult(TRUE, <<>>, <<>>)

====
